---- MODULE Spec2Model ----
(***************************************************************************)
(* rythmx: the Cruise Control cycle runner (app/scheduler.py), its         *)
(* single-flight flag, and the acquisition queue of app/db/cc_store.py.    *)
(*                                                                         *)
(* Threads: thread 0 is the background "cc-scheduler" loop thread, threads *)
(* 1..NumManual are "cc-manual-run" threads spawned by the run-now route.  *)
(* Every read or write of a module-level variable of scheduler.py and      *)
(* every cc_store transaction on the download_queue table is one step;     *)
(* steps of different threads interleave freely.                           *)
(*                                                                         *)
(* Two specifications share every action and differ only in the inputs     *)
(* Init draws: Spec runs all threads over a small catalog, SpecCycle runs  *)
(* one cycle thread over every catalog, queue and settings combination.    *)
(***************************************************************************)
EXTENDS Integers, Sequences, FiniteSets, TLC

\* ---------------------------------------------------------------- bounds
NumManual == 1
MaxEnqueue == 2
MaxCap == 2
NumAutoSync == 1

\* ------------------------------------------------------------- universe
Threads == 0 .. NumManual
Modes == {"dry", "playlist", "cruise"}
Statuses == {"pending", "submitted", "found", "failed", "skipped"}

\* ISO dates YYYY-MM-DD, written as day numbers: the string order the code
\* compares by is the order of the numbers.  Today is date.today().
Today == 2

Rel(a, t, d) == [artist |-> a, title |-> t, release_date |-> d]

\* What the taste provider reports (plays per artist), in dict order.
ArtistOrder == <<"air", "bjork">>
TopArtists == [a \in {"air", "bjork"} |-> IF a = "air" THEN 10 ELSE 2]
MinListensChoices == {2, 5, 11}

\* Releases the provider chain can return for "air", in provider order.
AirBase ==
    << Rel("air", "moon", 1), Rel("air", "sun", 2), Rel("air", "Moon", 2),
       Rel("air", "fog", 3), Rel("air", "dew", 1) >>
BjorkReleases == << Rel("bjork", "sun", 1) >>

\* SQL NULL / Python None in an identifier column.
NULL == "NULL"

\* str.lower() / SQL lower() on the strings of the universe.
Lower(s) ==
    CASE s = "Moon" -> "moon"
      [] s = "Sun" -> "sun"
      [] s = "Air" -> "air"
      [] s = "Air!" -> "air!"
      [] s = "Remix" -> "remix"
      [] s = "Sun Remix" -> "sun remix"
      [] OTHER -> s

\* re.sub(r"[^\w\s]", "", s).strip() on the strings of the universe
\* (scheduler.py:102, music_client.py:55-56).
StripPunct(s) ==
    CASE s = "Air!" -> "Air"
      [] s = "air!" -> "air"
      [] OTHER -> s

\* "kw in s" for the ignore keywords and the titles of the universe.
KeywordsIn(s) ==
    CASE s = "sun remix" -> {"remix", "sun"}
      [] s = "Sun Remix" -> {"Remix"}
      [] s = "sun" -> {"sun"}
      [] OTHER -> {}

\* any(kw in s for kw in kws)
HasKeyword(s, kws) == kws \cap KeywordsIn(s) # {}

\* music_client.norm: NFKC, lower-case, leading article and punctuation
\* stripped.  No string of the universe has a leading article.
norm(s) == StripPunct(Lower(s))

Min(a, b) == IF a <= b THEN a ELSE b

Range(f) == {f[i] : i \in DOMAIN f}

\* ---------------------------------------------------------------- state
VARIABLES
    is_running,     \* scheduler._is_running
    last_run,       \* scheduler._last_run (0 = None, else the n-th utcnow())
    last_result,    \* scheduler._last_result
    queue,          \* download_queue rows, in rowid order
    settings,       \* cc_settings rows read by get_all_settings()
    catalog,        \* what the provider chain lists per artist
    active,         \* the threads that exist in this run
    pc,             \* position of each thread
    loc,            \* locals of each thread's run_cycle/_execute_cycle call
    ret,            \* value returned by each thread's run_cycle call
    manual,         \* POST /api/acquisition/queue requests still to arrive
    lastCall,       \* the latest add_to_queue call and what it returned
    acq,            \* each check_queue caller's position and locals
    passes,         \* check_queue passes still to start
    identity_cache, \* artist_identity_cache rows by lastfm_name
    idin,           \* what Last.fm and iTunes answer to a resolution
    resolved,       \* what the latest resolve_artist call returned
    nulled,         \* the fields the latest cache_artist call of an
                    \* existing row passed as NULL
    release_cache,  \* release_cache rows
    got,            \* the latest release-cache call and what it returned
    force_inputs,   \* the force_refresh values the callers of this run pass
    disc,           \* the get_new_releases_for_artist call under way
    limiter,        \* the iTunes client: clock, _itunes_last_call, callers
    own,            \* the latest check_album_owned call and its result
    lp              \* the background loop: its thread, the clock, the stop
                    \* event and the schedule settings

\* The state of the acquisition worker.
wvars == << acq, passes >>

\* The state of identity resolution.
ivars == << identity_cache, idin, resolved, nulled >>

\* The state of the release cache.
rvars == << release_cache, got >>

\* What the callers of run_cycle pass.
evars == << force_inputs, lp >>

\* The state of the catalog clients and of the library reader.
cvars == << disc, limiter, own >>

\* What the cycle runner and the enqueue route leave alone.
xvars == << wvars, ivars, rvars, evars, cvars >>

vars == << is_running, last_run, last_result, queue, settings, catalog,
           active, pc, loc, ret, manual, lastCall, acq, passes,
           identity_cache, idin, resolved, nulled, release_cache, got,
           force_inputs, disc, limiter, own, lp >>

NoResult == [status |-> "none", message |-> "", artists |-> 0, found |-> 0,
             owned |-> 0, unowned |-> 0, queued |-> 0]
Skipped == [NoResult EXCEPT !.status = "skipped", !.message = "already_running"]
ErrorResult == [NoResult EXCEPT !.status = "error", !.message = "exception"]
EarlyResult == [NoResult EXCEPT !.status = "ok", !.message = "no_qualified_artists"]

NoLocals ==
    [ run_mode |-> "none", force_refresh |-> FALSE, clears |-> 0,
      qualified |-> {}, discovered |-> {},
      unique_releases |-> <<>>, owned_releases |-> <<>>, unowned |-> <<>>,
      new_unowned |-> <<>>, to_queue |-> <<>>, queued_count |-> 0,
      enq |-> <<>>, saves |-> 0, syncs |-> 0, hist |-> 0,
      failed |-> {}, result |-> NoResult ]

\* cc_store.py:640-641  get_cached_releases returning None
Miss == [hit |-> FALSE, releases |-> {}]

\* music_client.py:31, 35  the providers whose client spaces its requests,
\* and the interval of each in tenths of a second.
Limited == {"itunes", "musicbrainz"}
RateInterval(p) == IF p = "itunes" THEN 31 ELSE 11

\* The threads that call the provider clients: the scheduler loop and a
\* run-now thread (routes/new_music.py:113).
Callers == {1, 2}
NoCaller == [pc |-> "idle", provider |-> "none", wake |-> 0]

\* music_client.py:77, 328  time.monotonic() and the two _last_call
\* globals at import, no call under way, no request sent.
\* No datetime: cc_last_run or release_cache_last_cleared_weekday not set.
NoTime == -1

\* cc_settings before the schedule is saved (routes/new_music.py:67-84).
NoCfg == [saved |-> FALSE, enabled |-> FALSE, valid |-> TRUE,
          weekday |-> -1, hour |-> -1, cycle_hours |-> 24,
          refresh_weekday |-> 3, refresh_hour |-> 5]

\* scheduler.py:29-30, 550-589  the loop thread not started: its position,
\* the clock in hours since a Monday 00:00, _stop_event, the schedule
\* settings, cc_last_run and release_cache_last_cleared_weekday, the
\* worker runs and the cycle of the current iteration,
\* the start hours of the last two scheduled cycles, the dates of the last
\* two scheduled force refreshes, whether the stop event was set when the
\* current cycle began, the hours the current cycle has taken and the
\* start() calls that made a thread.
NoLoop == [pc |-> "off", now |-> 0, stop |-> FALSE, cfg |-> NoCfg,
           cc_last_run |-> NoTime, last_cleared |-> NoTime,
           worked |-> 0, ran |-> FALSE, started |-> <<>>, forced |-> <<>>,
           begun_stopped |-> FALSE, dur |-> 0, threads |-> 0]

NoLimiter ==
    [now |-> 0, last_call |-> [p \in Limited |-> 0],
     caller |-> [c \in Callers |-> NoCaller],
     sent |-> [p \in Limited |-> <<>>]]
NoOwn == [n |-> 0, args |-> [artist_name |-> ""], fails |-> NULL,
          result |-> NULL]

NoCall == [n |-> 0, artist |-> "", title |-> "", id |-> 0]

IdValues == {NULL, "x", "y"}
IdFields == {"deezer_artist_id", "spotify_artist_id", "itunes_artist_id",
             "mb_artist_id", "soulsync_artist_id"}
IdArtists == {"air"}

\* cc_store.py:76-85, 147-149  a row of artist_identity_cache; NoRow: the
\* artist has no row.
IdRow(ids, confidence, method, ts) ==
    [deezer_artist_id |-> ids.deezer_artist_id,
     spotify_artist_id |-> ids.spotify_artist_id,
     itunes_artist_id |-> ids.itunes_artist_id,
     mb_artist_id |-> ids.mb_artist_id,
     soulsync_artist_id |-> ids.soulsync_artist_id,
     confidence |-> confidence, resolution_method |-> method,
     last_resolved_ts |-> ts]
NoIds == [f \in IdFields |-> NULL]
NoRow == [IdRow(NoIds, 0, NULL, 0) EXCEPT !.resolution_method = "no row"]

NoInput == [titles |-> FALSE, cands |-> <<>>, force |-> FALSE]
NoResolve == [itunes_artist_id |-> NULL, confidence |-> 0,
              method |-> "none", fresh |-> FALSE, candidates |-> 0,
              overlap |-> -1]

\* music_client.py:507-592  a get_new_releases_for_artist call that has not
\* started: its position, config.MUSIC_API_PROVIDER, _spotify_available(),
\* the ids dict, the provider requests it has made so far (in order), the
\* providers it has tried with the number of releases each yielded, the
\* releases it returns, whether an exception left it, and what the release
\* cache held for the artist when it started.
NoDisc == [pc |-> "idle", provider |-> "auto", spotify_available |-> FALSE,
           ids |-> [f \in IdFields |-> NULL], calls |-> <<>>,
           tried |-> <<>>, releases |-> <<>>, raised |-> FALSE,
           cached |-> Miss]

\* The callers of acquisition.check_queue: the scheduler loop
\* (scheduler.py:569) and the check-now route (routes/acquisition.py:59).
Workers == {"loop", "route"}

\* A check_queue call that has not started: its position, timeout_days, the
\* 'submitted' rows it fetched, the index of its loop, the ids its re-check
\* marked found and the ids it timed out.
NoPass == [pc |-> "idle", timeout_days |-> 0, submitted |-> <<>>, i |-> 0,
           found |-> {}, timed_out |-> {}]

\* ------------------------------------------------------ pure functions

\* Qualified without the threshold test.
Qualified_NoThreshold(top, min_listens) == DOMAIN top

\* scheduler.py:109  qualified = {name: plays ... if plays >= min_listens}
Qualified(top, min_listens) == {a \in DOMAIN top : top[a] >= min_listens}

\* The qualified artists in dict (iteration) order.
RECURSIVE InOrder(_, _)
InOrder(order, S) ==
    IF order = <<>> THEN <<>>
    ELSE (IF Head(order) \in S THEN <<Head(order)>> ELSE <<>>)
         \o InOrder(Tail(order), S)

\* config.py:60  CC_IGNORE_KEYWORDS
CC_IGNORE_KEYWORDS == {"remix", "remaster", "live", "karaoke", "instrumental"}

\* scheduler.py:99-100  the setting, or the configured default when the
\* setting is empty; the entries are stripped, not lower-cased.
IgnoreKeywords(s) ==
    IF s.nr_ignore_keywords = {} THEN CC_IGNORE_KEYWORDS
    ELSE s.nr_ignore_keywords

\* scheduler.py:103  the entries lower-cased with punctuation stripped
IgnoreArtists(s) == { StripPunct(Lower(a)) : a \in s.nr_ignore_artists }

\* scheduler.py:160-167, 183-187 with music_client.py:528 and the keyword
\* test of every provider (165, 303, 406, 479): what discovery returns for
\* an artist out of what the providers list, the titles with a lower-cased
\* ignore keyword dropped and an empty artist filled in by the caller.
Discovered(cat, a, ignore_keywords) ==
    LET ignore_kw == { Lower(k) : k \in ignore_keywords }
        kept == SelectSeq(cat[a], LAMBDA r :
                    ~HasKeyword(Lower(r.title), ignore_kw))
    IN [i \in DOMAIN kept |->
          IF kept[i].artist = "" THEN [kept[i] EXCEPT !.artist = a]
          ELSE kept[i]]

\* Ignored testing the keywords only.
Ignored_KeywordsOnly(r, ignore_artists, ignore_keywords) ==
    HasKeyword(Lower(r.title), ignore_keywords)

\* scheduler.py:195-200  the two ignore tests of the dedup loop
Ignored(r, ignore_artists, ignore_keywords) ==
    \/ StripPunct(Lower(r.artist)) \in ignore_artists
    \/ HasKeyword(Lower(r.title), ignore_keywords)

\* scheduler.py:183-188  all_releases.extend(releases) per qualified artist
RECURSIVE AllReleases(_, _)
AllReleases(artists, cat) ==
    IF artists = <<>> THEN <<>>
    ELSE cat[Head(artists)] \o AllReleases(Tail(artists), cat)

\* Key comparing the strings as they are.
Key_Exact(r) == << r.artist, r.title >>

\* scheduler.py:201  key = (norm(r.artist), norm(r.title))
Key(r) == << norm(r.artist), norm(r.title) >>

\* scheduler.py:192-204  keep the first release of every normalized key
RECURSIVE DedupFrom(_, _)
DedupFrom(rs, seen) ==
    IF rs = <<>> THEN <<>>
    ELSE IF Key(Head(rs)) \in seen THEN DedupFrom(Tail(rs), seen)
         ELSE <<Head(rs)>> \o DedupFrom(Tail(rs), seen \cup {Key(Head(rs))})

Dedup(rs) == DedupFrom(rs, {})

\* scheduler.py:192-204  the loop over all_releases: an ignored release is
\* passed over before its key is looked at.
UniqueReleases(rs, ignore_artists, ignore_keywords) ==
    Dedup(SelectSeq(rs, LAMBDA r :
                ~Ignored(r, ignore_artists, ignore_keywords)))

\* The tables of the library database that the owned-check reads.
Artist(id, name, itunes, spotify) ==
    [id |-> id, name |-> name, itunes_artist_id |-> itunes,
     spotify_artist_id |-> spotify]
Album(id, artist_id, title, itunes, deezer, spotify) ==
    [id |-> id, artist_id |-> artist_id, title |-> title,
     itunes_album_id |-> itunes, deezer_id |-> deezer,
     spotify_album_id |-> spotify]
Track(id, artist_id, album_id) ==
    [id |-> id, artist_id |-> artist_id, album_id |-> album_id]

\* The library of the cycle and the worker: one album, "dew" by "air".
CycleLibrary ==
    [artists |-> { Artist("1", "air", NULL, NULL) },
     albums |-> { Album("A1", "1", "dew", NULL, NULL, NULL) },
     tracks |-> { Track("t1", "1", "A1") }]

\* Albums present in that library (artist, title), lower-cased.
Library ==
    { << Lower(p[1].name), Lower(p[2].title) >> :
        p \in { p \in CycleLibrary.artists \X CycleLibrary.albums :
                   p[2].artist_id = p[1].id } }

\* The arguments of check_album_owned.
OwnArgs(artist_name, album_name, ss, sp, it, dz_al, sp_al, it_al) ==
    [artist_name |-> artist_name, album_name |-> album_name,
     soulsync_artist_id |-> ss, spotify_artist_id |-> sp,
     itunes_artist_id |-> it, deezer_album_id |-> dz_al,
     spotify_album_id |-> sp_al, itunes_album_id |-> it_al]

\* Python truth of an optional string argument.
Given(x) == x # NULL /\ x # ""

\* Tiers with the text match first.
Tiers_TextFirst == << "3", "0", "1a", "1b", "1c", "2a", "2b" >>

\* soulsync_reader.py:299-381  the tiers in the order of the code.
Tiers == << "0", "1a", "1b", "1c", "2a", "2b", "3" >>

\* The argument whose presence lets a tier run.
TierArg(k, args) ==
    CASE k = "0" -> args.soulsync_artist_id
      [] k = "1a" -> args.itunes_album_id
      [] k = "1b" -> args.deezer_album_id
      [] k = "1c" -> args.spotify_album_id
      [] k = "2a" -> args.itunes_artist_id
      [] k = "2b" -> args.spotify_artist_id
      [] OTHER -> args.artist_name

\* The ids of the tracks that the query of a tier selects (each query is
\* "SELECT t.id ... LIMIT 1": one of them comes back).
TierRows(k, args, lib) ==
    { t.id : t \in { t \in lib.tracks :
        \E al \in lib.albums :
          /\ t.album_id = al.id
          /\ CASE k = "0" ->
                    /\ al.artist_id = args.soulsync_artist_id
                    /\ Lower(al.title) = Lower(args.album_name)
                [] k = "1a" -> al.itunes_album_id = args.itunes_album_id
                [] k = "1b" -> al.deezer_id = args.deezer_album_id
                [] k = "1c" -> al.spotify_album_id = args.spotify_album_id
                [] OTHER ->
                    /\ Lower(al.title) = Lower(args.album_name)
                    /\ \E a \in lib.artists :
                         /\ t.artist_id = a.id
                         /\ CASE k = "2a" -> a.itunes_artist_id
                                                = args.itunes_artist_id
                              [] k = "2b" -> a.spotify_artist_id
                                                = args.spotify_artist_id
                              [] OTHER -> Lower(a.name)
                                             = Lower(args.artist_name) } }

\* soulsync_reader.py:299-386  the tiers from the i-th on: a tier without
\* its argument is passed over, a query that raises ends the call with
\* None (line 387), a query with a row ends it with the row's track.
RECURSIVE FromTier(_, _, _, _)
FromTier(i, args, lib, fails) ==
    IF i > Len(Tiers) THEN {NULL}
    ELSE IF ~Given(TierArg(Tiers[i], args))
         THEN FromTier(i + 1, args, lib, fails)
    ELSE IF fails = Tiers[i] THEN {NULL}
    ELSE IF TierRows(Tiers[i], args, lib) # {}
         THEN TierRows(Tiers[i], args, lib)
    ELSE FromTier(i + 1, args, lib, fails)

\* soulsync_reader.py:278-389  check_album_owned: the values it can
\* return, a track id or None.  fails is the tier whose query raises
\* (a column an older library schema lacks), NULL when none does.
check_album_owned(args, lib, fails) ==
    IF args.album_name = "" THEN {NULL}
    ELSE FromTier(1, args, lib, fails)

\* soulsync_reader.py:212-252  get_soulsync_artist_id: the ids it can
\* return.  (norm and lower() agree on the artist names of the libraries.)
get_soulsync_artist_id(artist_name, lib) ==
    IF artist_name = "" THEN {NULL}
    ELSE LET ids == { a.id : a \in { a \in lib.artists :
                         Lower(a.name) = Lower(artist_name) } }
         IN IF ids = {} THEN {NULL} ELSE ids

\* scheduler.py:218-231, acquisition.py:97-105  the owned-check as the
\* cycle and the worker make it: by name with the library's artist id (the
\* releases and queue rows of the model carry no provider album id).
Owned(r) ==
    \E ss \in get_soulsync_artist_id(r.artist, CycleLibrary) :
      \E k \in check_album_owned(
                  OwnArgs(r.artist, r.title, ss, NULL, NULL, NULL, NULL, NULL),
                  CycleLibrary, NULL) : k # NULL

\* scheduler.py:256  unowned.sort(key=release_date, reverse=True): stable,
\* releases of equal date keep their relative order.
RECURSIVE InsertDesc(_, _)
InsertDesc(s, r) ==
    IF s = <<>> THEN <<r>>
    ELSE IF Head(s).release_date >= r.release_date
         THEN <<Head(s)>> \o InsertDesc(Tail(s), r)
         ELSE <<r>> \o s

RECURSIVE SortFrom(_, _)
SortFrom(acc, rs) ==
    IF rs = <<>> THEN acc ELSE SortFrom(InsertDesc(acc, Head(rs)), Tail(rs))

SortDesc(rs) == SortFrom(<<>>, rs)

\* Take cutting one element too late.
Take_OneMore(rs, k) == SubSeq(rs, 1, IF Len(rs) <= k + 1 THEN Len(rs) ELSE k + 1)

\* scheduler.py:266  new_unowned[:max_per_cycle]
Take(rs, k) == SubSeq(rs, 1, Min(Len(rs), k))

\* ------------------------------------------------------- download_queue

\* cc_store.py:126-143  created_at defaults to CURRENT_TIMESTAMP, the day
\* of the insert.
Row(id, a, t, st, by) ==
    [id |-> id, artist_name |-> a, album_title |-> t, status |-> st,
     requested_by |-> by, created_at |-> Today]

\* BlockingStatuses without 'submitted'.
BlockingStatuses_PendingOnly == {"pending"}

\* cc_store.py:233-237  status IN ('pending', 'submitted')
BlockingStatuses == {"pending", "submitted"}

\* cc_store.py:226-240
is_in_queue(q, a, t) ==
    \E i \in 1 .. Len(q) :
        /\ Lower(q[i].artist_name) = Lower(a)
        /\ Lower(q[i].album_title) = Lower(t)
        /\ q[i].status \in BlockingStatuses

\* cc_store.py:255-263  INSERT OR IGNORE under UNIQUE(artist_name,
\* album_title): the constraint compares the stored strings as they are.
QueueInsert(q, a, t, by) ==
    IF \E i \in 1 .. Len(q) : q[i].artist_name = a /\ q[i].album_title = t
    THEN q
    ELSE Append(q, Row(Len(q) + 1, a, t, "pending", by))

\* cc_store.py:264-268  SELECT id ... WHERE lower(..)=lower(..)  fetchone():
\* the ids the query can return (no ORDER BY: any matching row).
QueueLookup(q, a, t) ==
    { q[i].id : i \in { j \in 1 .. Len(q) :
                          /\ Lower(q[j].artist_name) = Lower(a)
                          /\ Lower(q[j].album_title) = Lower(t) } }

\* --------------------------------------------------------------- inputs

\* The subsequences of a sequence (order kept), one per index set.
RECURSIVE Pick(_, _, _)
Pick(s, I, i) ==
    IF i > Len(s) THEN <<>>
    ELSE (IF i \in I THEN <<s[i]>> ELSE <<>>) \o Pick(s, I, i + 1)

SubSeqs(s) == { Pick(s, I, 1) : I \in SUBSET (1 .. Len(s)) }

\* acquisition.py:24  days before an unresolved 'submitted' item fails
_TIMEOUT_DAYS_DEFAULT == 30

\* The settings a cycle reads: cc_min_listens, cc_max_per_cycle
\* (scheduler.py:94-96; the cap is a count, 0 .. MaxCap), the ignore lists
\* nr_ignore_keywords and nr_ignore_artists (scheduler.py:99-103; the
\* comma-separated entries as a set, empty by default) and the setting the
\* acquisition worker reads, cc_acquisition_timeout_days (acquisition.py:35;
\* an absent row reads as the default).
SettingsChoices ==
    { s \in [cc_min_listens : MinListensChoices,
             cc_max_per_cycle : 0 .. MaxCap,
             nr_ignore_keywords : {{}},
             nr_ignore_artists : {{}},
             cc_acquisition_timeout_days : {_TIMEOUT_DAYS_DEFAULT}] :
        s.cc_min_listens > 10 => s.cc_max_per_cycle = 1 }

DefaultSettings ==
    [cc_min_listens |-> 5, cc_max_per_cycle |-> 1,
     nr_ignore_keywords |-> {}, nr_ignore_artists |-> {},
     cc_acquisition_timeout_days |-> _TIMEOUT_DAYS_DEFAULT]

\* cc.db outlives the process (init_db creates tables IF NOT EXISTS): the
\* queue a run starts with is empty or holds a row left by an earlier run
\* or by the downloader integration, in any status.
InitQueues ==
    { <<>> } \cup { << Row(1, "air", "moon", st, "cc") >> : st \in Statuses }

InitCommon ==
    /\ is_running = FALSE
    /\ last_run = 0
    /\ last_result = NoResult
    /\ pc = [t \in Threads |-> "idle"]
    /\ loc = [t \in Threads |-> NoLocals]
    /\ ret = [t \in Threads |-> NoResult]
    /\ lastCall = NoCall
    /\ acq = [w \in Workers |-> NoPass]
    /\ disc = NoDisc
    /\ limiter = NoLimiter
    /\ own = NoOwn
    /\ lp = NoLoop

\* No identity row, no resolution under way.
InitNoIdentity ==
    /\ identity_cache = [a \in IdArtists |-> NoRow]
    /\ idin = NoInput
    /\ resolved = NoResolve
    /\ nulled = {}

\* No release-cache call yet.
NoGot == [op |-> "none", artist |-> "", max_age_days |-> 0, hit |-> FALSE,
          releases |-> {}]

\* cc_store.py:111-124  a row of release_cache (is_upcoming and the Deezer
\* and Spotify ids are stored and read back the way the iTunes id is).
CacheRow(a, src, t, d, k, id, at) ==
    [artist_name |-> a, source |-> src, album_title |-> t,
     release_date |-> d, kind |-> k, itunes_album_id |-> id,
     cached_at |-> at]

\* cc_store.py:670-677  the row that says "fetched, nothing found"
Sentinel(a, at) == CacheRow(a, "sentinel", "", NULL, NULL, NULL, at)

InitNoReleaseCache ==
    /\ release_cache = {}
    /\ got = NoGot

\* All threads, one catalog.
Init ==
    /\ InitCommon
    /\ active = Threads
    /\ catalog = [a \in {"air", "bjork"} |->
                    IF a = "air" THEN << Rel("air", "moon", 1) >>
                    ELSE BjorkReleases]
    /\ settings \in {s \in SettingsChoices :
                        /\ s.cc_min_listens >= DefaultSettings.cc_min_listens
                        /\ s.cc_max_per_cycle = DefaultSettings.cc_max_per_cycle}
    /\ queue = <<>>
    /\ manual = 1
    /\ passes = 0
    /\ InitNoIdentity
    /\ InitNoReleaseCache
    /\ force_inputs = {FALSE}

\* One cycle thread, every catalog, queue and settings.
InitCycle ==
    /\ InitCommon
    /\ active \in { {t} : t \in Threads }
    /\ \E rs \in SubSeqs(AirBase) :
         catalog = [a \in {"air", "bjork"} |->
                      IF a = "air" THEN rs ELSE BjorkReleases]
    /\ settings \in SettingsChoices
    /\ queue \in InitQueues
    /\ manual = MaxEnqueue
    /\ passes = 0
    /\ InitNoIdentity
    /\ release_cache = { Sentinel("bjork", Today - 1) }
    /\ got = NoGot
    /\ force_inputs = BOOLEAN

\* clear_release_cache ignoring the artist.
clear_release_cache_All(cache, artist) == {}

\* cc_store.py:703-709  clear_release_cache(artist_name); None clears all
clear_release_cache(cache, artist) ==
    IF artist # NULL THEN {x \in cache : x.artist_name # artist} ELSE {}

\* -------------------------------------------------------------- actions

\* routes/new_music.py:104-121 (main.py:213-231)  POST run-now: 409 when
\* the flag is set, else a "cc-manual-run" thread is started on run_cycle.
CcRunNow(t, mode, force) ==
    /\ t \in active /\ t # 0 /\ pc[t] = "idle"
    /\ force \in force_inputs
    /\ IF is_running
       THEN pc' = [pc EXCEPT ![t] = "rejected"] /\ UNCHANGED loc
       ELSE /\ pc' = [pc EXCEPT ![t] = "check"]
            /\ loc' = [loc EXCEPT ![t].run_mode = mode,
                                  ![t].force_refresh = force]
    /\ UNCHANGED << is_running, last_run, last_result, queue, settings,
                    catalog, active, ret, manual, lastCall >>
    /\ UNCHANGED xvars

\* scheduler.py:550-564  the loop thread calls run_cycle with the
\* cc_run_mode setting it has just read and with force_refresh as
\* _should_weekly_refresh decided.
LoopTick(mode, force) ==
    /\ 0 \in active /\ pc[0] = "idle"
    /\ force \in force_inputs
    /\ pc' = [pc EXCEPT ![0] = "check"]
    /\ loc' = [loc EXCEPT ![0].run_mode = mode, ![0].force_refresh = force]
    /\ UNCHANGED << is_running, last_run, last_result, queue, settings,
                    catalog, active, ret, manual, lastCall >>
    /\ UNCHANGED xvars

\* RunCheck without the early return.
RunCheck_NoGuard(t) ==
    /\ t \in active /\ pc[t] = "check"
    /\ pc' = [pc EXCEPT ![t] = "set"]
    /\ UNCHANGED << is_running, last_run, last_result, queue, settings,
                    catalog, active, loc, ret, manual, lastCall >>
    /\ UNCHANGED xvars

\* scheduler.py:55-57  if _is_running: return skipped
RunCheck(t) ==
    /\ t \in active /\ pc[t] = "check"
    /\ IF is_running
       THEN /\ ret' = [ret EXCEPT ![t] = Skipped]
            /\ pc' = [pc EXCEPT ![t] = "done"]
       ELSE /\ pc' = [pc EXCEPT ![t] = "set"]
            /\ UNCHANGED ret
    /\ UNCHANGED << is_running, last_run, last_result, queue, settings,
                    catalog, active, loc, manual, lastCall >>
    /\ UNCHANGED xvars

\* scheduler.py:59-60  _is_running = True; _last_run = utcnow()
RunSet(t) ==
    /\ t \in active /\ pc[t] = "set"
    /\ is_running' = TRUE
    /\ last_run' = last_run + 1
    /\ pc' = [pc EXCEPT ![t] = "begin"]
    /\ UNCHANGED << last_result, queue, settings, catalog, active, loc, ret,
                    manual, lastCall >>
    /\ UNCHANGED xvars

\* CycleBegin clearing the cache whatever force_refresh is.
CycleBegin_AlwaysClears(t) ==
    /\ t \in active /\ pc[t] = "begin"
    /\ release_cache' = clear_release_cache(release_cache, NULL)
    /\ loc' = [loc EXCEPT ![t] = [@ EXCEPT !.clears = @ + 1]]
    /\ pc' = [pc EXCEPT ![t] = "s1"]
    /\ UNCHANGED << is_running, last_run, last_result, queue, settings,
                    catalog, active, ret, manual, lastCall, got >>
    /\ UNCHANGED << wvars, ivars, evars, cvars >>

\* scheduler.py:89-93  the settings are read, and with force_refresh the
\* whole release cache is cleared; either may raise.
CycleBegin(t) ==
    /\ t \in active /\ pc[t] = "begin"
    /\ \/ /\ loc' = [loc EXCEPT ![t] = [@ EXCEPT !.failed = {"s0"}]]
          /\ pc' = [pc EXCEPT ![t] = "except"]
          /\ UNCHANGED release_cache
       \/ /\ IF loc[t].force_refresh
             THEN /\ release_cache' =
                       clear_release_cache(release_cache, NULL)
                  /\ loc' = [loc EXCEPT ![t] = [@ EXCEPT !.clears = @ + 1]]
             ELSE UNCHANGED << release_cache, loc >>
          /\ pc' = [pc EXCEPT ![t] = "s1"]
    /\ UNCHANGED << is_running, last_run, last_result, queue, settings,
                    catalog, active, ret, manual, lastCall, got >>
    /\ UNCHANGED << wvars, ivars, evars, cvars >>

\* scheduler.py:94-237  settings, stage 1 (qualify), stage 2-3 (identity
\* and discovery per qualified artist, dedup), stage 4 (owned-check).  The
\* stages touch no state another thread of this model reads; any of them
\* may raise (DB, network, a bad setting; the call at line 160 passes
\* force_refresh, which the music_client of this tree does not accept).
Stages1to4(t) ==
    /\ t \in active /\ pc[t] = "s1"
    /\ LET qualified == Qualified(TopArtists, settings.cc_min_listens)
           order == InOrder(ArtistOrder, qualified)
           ignore_keywords == IgnoreKeywords(settings)
           found == [a \in DOMAIN catalog |->
                        Discovered(catalog, a, ignore_keywords)]
           unique_releases ==
               UniqueReleases(AllReleases(order, found),
                              IgnoreArtists(settings), ignore_keywords)
           owned_releases == SelectSeq(unique_releases, Owned)
           unowned == SelectSeq(unique_releases,
                                LAMBDA r : ~Owned(r))
       IN \/ \* stage 1 raises
             /\ loc' = [loc EXCEPT ![t] = [@ EXCEPT !.failed = {"s1"}]]
             /\ pc' = [pc EXCEPT ![t] = "except"]
          \/ \* line 113: no artist qualifies
             /\ qualified = {}
             /\ loc' = [loc EXCEPT ![t] = [@ EXCEPT !.result = EarlyResult]]
             /\ pc' = [pc EXCEPT ![t] = "return"]
          \/ \* stage 2-3 raises at the k-th artist
             /\ \E k \in 1 .. Len(order) :
                  loc' = [loc EXCEPT ![t] = [@ EXCEPT
                      !.qualified = qualified,
                      !.discovered = {order[i] : i \in 1 .. k},
                      !.failed = {"s23"}]]
             /\ pc' = [pc EXCEPT ![t] = "except"]
          \/ \* stage 4 raises
             /\ qualified # {}
             /\ loc' = [loc EXCEPT ![t] = [@ EXCEPT
                    !.qualified = qualified, !.discovered = qualified,
                    !.unique_releases = unique_releases,
                    !.failed = {"s4"}]]
             /\ pc' = [pc EXCEPT ![t] = "except"]
          \/ /\ qualified # {}
             /\ loc' = [loc EXCEPT ![t] = [@ EXCEPT
                    !.qualified = qualified, !.discovered = qualified,
                    !.unique_releases = unique_releases,
                    !.owned_releases = owned_releases,
                    !.unowned = unowned]]
             /\ pc' = [pc EXCEPT ![t] = "s5"]
    /\ UNCHANGED << is_running, last_run, last_result, queue, settings,
                    catalog, active, ret, manual, lastCall >>
    /\ UNCHANGED xvars

\* Stage5 selecting releases for the queue in every mode but dry.
Stage5_NotDry(t) ==
    /\ t \in active /\ pc[t] = "s5"
    /\ IF loc[t].run_mode # "dry"
       THEN LET sorted == SortDesc(loc[t].unowned)
                new_unowned == SelectSeq(sorted, LAMBDA r :
                    /\ ~is_in_queue(queue, r.artist, r.title)
                    /\ r.release_date <= Today)
                to_queue == Take(new_unowned, settings.cc_max_per_cycle)
            IN /\ loc' = [loc EXCEPT ![t] = [@ EXCEPT
                      !.unowned = sorted, !.new_unowned = new_unowned,
                      !.to_queue = to_queue]]
               /\ pc' = [pc EXCEPT ![t] =
                            IF to_queue = <<>> THEN "s7" ELSE "s6"]
       ELSE /\ pc' = [pc EXCEPT ![t] = "s7"]
            /\ UNCHANGED loc
    /\ UNCHANGED << is_running, last_run, last_result, queue, settings,
                    catalog, active, ret, manual, lastCall >>
    /\ UNCHANGED xvars

\* scheduler.py:254-268  cruise only: sort in place, drop what is_in_queue
\* blocks and what is dated after today, cut at max_per_cycle.
Stage5(t) ==
    /\ t \in active /\ pc[t] = "s5"
    /\ IF loc[t].run_mode = "cruise"
       THEN \/ /\ loc' = [loc EXCEPT ![t] = [@ EXCEPT !.failed = @ \cup {"s5"}]]
               /\ pc' = [pc EXCEPT ![t] = "except"]
            \/ LET sorted == SortDesc(loc[t].unowned)
                   new_unowned == SelectSeq(sorted, LAMBDA r :
                       /\ ~is_in_queue(queue, r.artist, r.title)
                       /\ r.release_date <= Today)
                   to_queue == Take(new_unowned, settings.cc_max_per_cycle)
               IN /\ loc' = [loc EXCEPT ![t] = [@ EXCEPT
                         !.unowned = sorted, !.new_unowned = new_unowned,
                         !.to_queue = to_queue]]
                  /\ pc' = [pc EXCEPT ![t] =
                               IF to_queue = <<>> THEN "s7" ELSE "s6"]
       ELSE /\ pc' = [pc EXCEPT ![t] = "s7"]
            /\ UNCHANGED loc
    /\ UNCHANGED << is_running, last_run, last_result, queue, settings,
                    catalog, active, ret, manual, lastCall >>
    /\ UNCHANGED xvars

\* cc_store.py:243-268  add_to_queue as one transaction: the queue after
\* it and the id it returns.
AddToQueue(a, t, by) ==
    /\ queue' = QueueInsert(queue, a, t, by)
    /\ \E id \in QueueLookup(queue', a, t) :
         lastCall' = [n |-> lastCall.n + 1, artist |-> a, title |-> t,
                      id |-> id]

\* scheduler.py:270-279  one iteration of "for r in to_queue".
Stage6(t) ==
    /\ t \in active /\ pc[t] = "s6"
    /\ LET r == loc[t].to_queue[loc[t].queued_count + 1]
       IN \/ /\ loc' = [loc EXCEPT ![t] = [@ EXCEPT !.failed = @ \cup {"s6"}]]
             /\ pc' = [pc EXCEPT ![t] = "except"]
             /\ UNCHANGED << queue, lastCall >>
          \/ /\ AddToQueue(r.artist, r.title, "cc")
             /\ loc' = [loc EXCEPT ![t] = [@ EXCEPT
                    !.queued_count = @ + 1, !.enq = Append(@, r)]]
             /\ pc' = [pc EXCEPT ![t] =
                          IF loc[t].queued_count + 1 = Len(loc[t].to_queue)
                          THEN "s7" ELSE "s6"]
    /\ UNCHANGED << is_running, last_run, last_result, settings, catalog,
                    active, ret, manual >>
    /\ UNCHANGED xvars

\* scheduler.py:293-406  stage 7 (playlist, inside try/except at 297/350),
\* stage 8 (auto-sync; each rebuild inside the try/except of
\* _auto_sync_playlist, 424/500), history entries, queue stats, result.
\* out is what went wrong, if anything:
\*   "s7"      stage 7 raised before save_playlist (caught at line 350)
\*   "s8sync"  an auto-sync rebuild raised (caught at line 500)
\*   "s8"      list_playlists raised (line 362, outside any try block)
\*   "hist"    add_history_entry raised (lines 372-389)
\*   "result"  get_queue_stats raised (line 391)
Caught == {"s7", "s8sync"}

\* CycleResult counting the releases before the owned-check only.
CycleResult_OwnedIsFound(l) ==
    [status |-> "ok", message |-> "",
     artists |-> Cardinality(l.qualified),
     found |-> Len(l.unique_releases),
     owned |-> Len(l.unique_releases),
     unowned |-> Len(l.unowned),
     queued |-> l.queued_count]

\* scheduler.py:392-400  the result summary of a cycle that ran through
CycleResult(l) ==
    [status |-> "ok", message |-> "",
     artists |-> Cardinality(l.qualified),
     found |-> Len(l.unique_releases),
     owned |-> Len(l.owned_releases),
     unowned |-> Len(l.unowned),
     queued |-> l.queued_count]

Stages7to9(t) ==
    /\ t \in active /\ pc[t] = "s7"
    /\ LET l == loc[t]
           pl == l.run_mode \in {"playlist", "cruise"}
       IN \E out \in {"none", "result"}
                     \cup (IF pl THEN {"s7", "s8sync", "s8"} ELSE {})
                     \cup (IF l.run_mode # "dry" THEN {"hist"} ELSE {}) :
            LET saves == IF pl /\ out # "s7" THEN 1 ELSE 0
                syncs == IF pl /\ out # "s8" THEN NumAutoSync ELSE 0
                hist == IF l.run_mode # "dry" /\ out \notin {"s8", "hist"}
                        THEN Len(l.owned_releases) + Len(l.unowned) ELSE 0
                raised == out \notin Caught \cup {"none"}
                result == CycleResult(l)
            IN /\ loc' = [loc EXCEPT ![t] = [l EXCEPT
                     !.saves = saves, !.syncs = syncs, !.hist = hist,
                     !.failed = IF out = "none" THEN @ ELSE @ \cup {out},
                     !.result = IF raised THEN @ ELSE result]]
               /\ pc' = [pc EXCEPT ![t] =
                            IF raised THEN "except" ELSE "return"]
    /\ UNCHANGED << is_running, last_run, last_result, queue, settings,
                    catalog, active, ret, manual, lastCall >>
    /\ UNCHANGED xvars

\* scheduler.py:64-65  _last_result = result; return result
RunReturn(t) ==
    /\ t \in active /\ pc[t] = "return"
    /\ last_result' = loc[t].result
    /\ ret' = [ret EXCEPT ![t] = loc[t].result]
    /\ pc' = [pc EXCEPT ![t] = "finally"]
    /\ UNCHANGED << is_running, last_run, queue, settings, catalog, active,
                    loc, manual, lastCall >>
    /\ UNCHANGED xvars

\* RunExcept returning without recording the error.
RunExcept_KeepsResult(t) ==
    /\ t \in active /\ pc[t] = "except"
    /\ ret' = [ret EXCEPT ![t] = last_result]
    /\ pc' = [pc EXCEPT ![t] = "finally"]
    /\ UNCHANGED << is_running, last_run, last_result, queue, settings,
                    catalog, active, loc, manual, lastCall >>
    /\ UNCHANGED xvars

\* scheduler.py:66-69  except Exception: _last_result = error; return it
RunExcept(t) ==
    /\ t \in active /\ pc[t] = "except"
    /\ last_result' = ErrorResult
    /\ ret' = [ret EXCEPT ![t] = ErrorResult]
    /\ pc' = [pc EXCEPT ![t] = "finally"]
    /\ UNCHANGED << is_running, last_run, queue, settings, catalog, active,
                    loc, manual, lastCall >>
    /\ UNCHANGED xvars

\* RunFinally clearing the flag on the normal path only (no finally block).
RunFinally_NotOnError(t) ==
    /\ t \in active /\ pc[t] = "finally"
    /\ is_running' = IF ret[t] = ErrorResult THEN is_running ELSE FALSE
    /\ pc' = [pc EXCEPT ![t] = "done"]
    /\ loc' = [loc EXCEPT ![t] = NoLocals]
    /\ UNCHANGED << last_run, last_result, queue, settings, catalog, active,
                    ret, manual, lastCall >>
    /\ UNCHANGED xvars

\* scheduler.py:70-71  finally: _is_running = False, then the call returns
\* (its locals are gone, the caller holds the returned value).
RunFinally(t) ==
    /\ t \in active /\ pc[t] = "finally"
    /\ is_running' = FALSE
    /\ pc' = [pc EXCEPT ![t] = "done"]
    /\ loc' = [loc EXCEPT ![t] = NoLocals]
    /\ UNCHANGED << last_run, last_result, queue, settings, catalog, active,
                    ret, manual, lastCall >>
    /\ UNCHANGED xvars

\* routes/acquisition.py:31-45 (main.py:263-277)  POST acquisition/queue
ManualTitles == {"Moon"}

AcquisitionQueueAdd(a, t) ==
    /\ manual > 0
    /\ manual' = manual - 1
    /\ AddToQueue(a, t, "manual")
    /\ UNCHANGED << is_running, last_run, last_result, settings, catalog,
                    active, pc, loc, ret >>
    /\ UNCHANGED xvars

\* ---------------------------------------------------- acquisition worker

\* cc_store.py:271-284  get_queue(status): the rows of that status,
\* ORDER BY created_at DESC (rows of one day in rowid order).
RECURSIVE InsertNewest(_, _)
InsertNewest(s, r) ==
    IF s = <<>> THEN <<r>>
    ELSE IF Head(s).created_at >= r.created_at
         THEN <<Head(s)>> \o InsertNewest(Tail(s), r)
         ELSE <<r>> \o s

RECURSIVE NewestFirst(_, _)
NewestFirst(acc, rs) ==
    IF rs = <<>> THEN acc
    ELSE NewestFirst(InsertNewest(acc, Head(rs)), Tail(rs))

\* get_queue without the status filter.
get_queue_AnyStatus(q, status) == NewestFirst(<<>>, q)

\* cc_store.py:271-284  get_queue(status): the rows of that status, newest
\* first.
get_queue(q, status) ==
    NewestFirst(<<>>, SelectSeq(q, LAMBDA r : r.status = status))

\* cc_store.py:287-296  UPDATE download_queue SET status = ? WHERE id = ?
update_queue_status(q, queue_id, status) ==
    [k \in 1 .. Len(q) |->
        IF q[k].id = queue_id THEN [q[k] EXCEPT !.status = status] ELSE q[k]]

\* IsStale without the age test.
IsStale_Always(item, timeout_days) == TRUE

\* acquisition.py:50-57  cutoff = utcnow() - timedelta(days=timeout_days);
\* created_dt < cutoff
IsStale(item, timeout_days) == item.created_at < Today - timeout_days

\* acquisition.py:34-47  settings, step 1 (the pending rows go to the
\* _submit_item stub, which changes nothing), the 'submitted' rows are
\* fetched; get_library_reader() may fail (lines 87-91), and then no row is
\* re-checked.  int() of a bad setting or a DB error raises out of the call.
CheckQueueBegin(w) ==
    /\ acq[w].pc = "idle" /\ passes > 0
    /\ passes' = passes - 1
    /\ \/ acq' = [acq EXCEPT ![w] = [NoPass EXCEPT !.pc = "raised"]]
       \/ \E reader \in BOOLEAN :
            LET submitted == get_queue(queue, "submitted")
            IN acq' = [acq EXCEPT ![w] =
                 [NoPass EXCEPT
                    !.timeout_days = settings.cc_acquisition_timeout_days,
                    !.submitted = submitted,
                    !.i = 1,
                    !.pc = IF submitted = <<>> THEN "done"
                           ELSE IF reader THEN "recheck" ELSE "timeout"]]
    /\ UNCHANGED << is_running, last_run, last_result, queue, settings,
                    catalog, active, pc, loc, ret, manual, lastCall >>
    /\ UNCHANGED << ivars, rvars, evars, cvars >>

\* acquisition.py:93-112  one iteration of _recheck_submitted: the row is
\* marked found when the owned-check returns a rating key; an exception in
\* the iteration is logged and the loop goes on.
RecheckItem(w) ==
    /\ acq[w].pc = "recheck"
    /\ LET item == acq[w].submitted[acq[w].i]
           last == acq[w].i = Len(acq[w].submitted)
           step(found) ==
               acq' = [acq EXCEPT ![w] = [@ EXCEPT
                         !.found = @ \cup found,
                         !.i = IF last THEN 1 ELSE @ + 1,
                         !.pc = IF last THEN "timeout" ELSE "recheck"]]
       IN \/ /\ step({}) /\ UNCHANGED queue
          \/ IF Owned(Rel(item.artist_name, item.album_title, 0))
             THEN /\ queue' = update_queue_status(queue, item.id, "found")
                  /\ step({item.id})
             ELSE /\ step({}) /\ UNCHANGED queue
    /\ UNCHANGED << is_running, last_run, last_result, settings, catalog,
                    active, pc, loc, ret, manual, lastCall, passes >>
    /\ UNCHANGED << ivars, rvars, evars, cvars >>

\* acquisition.py:51-61  one iteration of the timeout loop, over the rows
\* fetched at line 45.
TimeoutItem(w) ==
    /\ acq[w].pc = "timeout"
    /\ LET item == acq[w].submitted[acq[w].i]
           last == acq[w].i = Len(acq[w].submitted)
           stale == IsStale(item, acq[w].timeout_days)
       IN /\ queue' = IF stale
                       THEN update_queue_status(queue, item.id, "failed")
                       ELSE queue
          /\ acq' = [acq EXCEPT ![w] = [@ EXCEPT
                       !.timed_out = IF stale THEN @ \cup {item.id} ELSE @,
                       !.i = IF last THEN @ ELSE @ + 1,
                       !.pc = IF last THEN "done" ELSE "timeout"]]
    /\ UNCHANGED << is_running, last_run, last_result, settings, catalog,
                    active, pc, loc, ret, manual, lastCall, passes >>
    /\ UNCHANGED << ivars, rvars, evars, cvars >>

\* check_queue returns (or its exception reaches the caller, which logs
\* it: scheduler.py:570, routes/acquisition.py:59); the caller may call again.
CheckQueueEnd(w) ==
    /\ acq[w].pc \in {"done", "raised"}
    /\ acq' = [acq EXCEPT ![w] = NoPass]
    /\ UNCHANGED << is_running, last_run, last_result, queue, settings,
                    catalog, active, pc, loc, ret, manual, lastCall, passes >>
    /\ UNCHANGED << ivars, rvars, evars, cvars >>

Next ==
    \/ \E t \in Threads, mode \in Modes, force \in BOOLEAN :
          CcRunNow(t, mode, force)
    \/ \E mode \in Modes, force \in BOOLEAN : LoopTick(mode, force)
    \/ \E t \in Threads : RunCheck(t)
    \/ \E t \in Threads : RunSet(t)
    \/ \E t \in Threads : CycleBegin(t)
    \/ \E t \in Threads : Stages1to4(t)
    \/ \E t \in Threads : Stage5(t)
    \/ \E t \in Threads : Stage6(t)
    \/ \E t \in Threads : Stages7to9(t)
    \/ \E t \in Threads : RunReturn(t)
    \/ \E t \in Threads : RunExcept(t)
    \/ \E t \in Threads : RunFinally(t)
    \/ \E t \in ManualTitles : AcquisitionQueueAdd("air", t)

Spec == Init /\ [][Next]_vars

SpecCycle == InitCycle /\ [][Next]_vars

\* What the providers list for "air" in the runs that exercise the ignore
\* lists and the dedup: the artist spelled as the provider spells it (or
\* left empty, as MusicBrainz does), titles with and without a keyword.
FilterBase ==
    << Rel("air", "moon", 1), Rel("Air!", "moon", 1), Rel("", "Moon", 1),
       Rel("Air!", "sun", 2), Rel("air", "Sun Remix", 1) >>
IgnoreArtistChoices == { {}, {"Air!"}, {"air"} }
IgnoreKeywordChoices == { {}, {"Remix"}, {"sun"} }

\* One cycle thread, every such catalog and pair of ignore lists.
InitFilter ==
    /\ InitCommon
    /\ active \in { {t} : t \in Threads }
    /\ \E rs \in SubSeqs(FilterBase) :
         catalog = [a \in {"air", "bjork"} |->
                      IF a = "air" THEN rs ELSE BjorkReleases]
    /\ \E ia \in IgnoreArtistChoices, ik \in IgnoreKeywordChoices :
         settings = [DefaultSettings EXCEPT
                        !.cc_min_listens = 2,
                        !.nr_ignore_artists = ia,
                        !.nr_ignore_keywords = ik]
    /\ queue = <<>>
    /\ manual = 1
    /\ passes = 0
    /\ InitNoIdentity
    /\ InitNoReleaseCache
    /\ force_inputs = {FALSE}

SpecFilter == InitFilter /\ [][Next]_vars

\* The worker's inputs: two rows left in the queue by earlier runs, one for
\* an album that is in the library by now and one for an album that is
\* not, each in any status and of any of these ages.
MaxPasses == 2
TimeoutChoices == {_TIMEOUT_DAYS_DEFAULT, 1}
CreatedChoices == {Today - 31, Today - 30, Today - 1}

InitWorker ==
    /\ InitCommon
    /\ active = {}
    /\ catalog = [a \in {"air", "bjork"} |-> <<>>]
    /\ \E d \in TimeoutChoices :
         settings = [DefaultSettings EXCEPT !.cc_acquisition_timeout_days = d]
    /\ \E s1, s2 \in Statuses, c1, c2 \in CreatedChoices :
         queue = << [Row(1, "air", "dew", s1, "cc") EXCEPT !.created_at = c1],
                    [Row(2, "air", "moon", s2, "cc") EXCEPT !.created_at = c2] >>
    /\ manual = 1
    /\ passes = MaxPasses
    /\ InitNoIdentity
    /\ InitNoReleaseCache
    /\ force_inputs = {FALSE}

NextWorker ==
    \/ \E w \in Workers : CheckQueueBegin(w)
    \/ \E w \in Workers : RecheckItem(w)
    \/ \E w \in Workers : TimeoutItem(w)
    \/ \E w \in Workers : CheckQueueEnd(w)
    \/ \E t \in ManualTitles : AcquisitionQueueAdd("air", t)

SpecWorker == InitWorker /\ [][NextWorker]_vars

\* ------------------------------------------------- artist identity cache

\* coalesce writing the new value whatever it is.
coalesce_Overwrite(new, old) == new

\* SQL COALESCE(excluded.col, col)
coalesce(new, old) == IF new # NULL THEN new ELSE old

\* cc_store.py:422-451  cache_artist: INSERT ... ON CONFLICT(lastfm_name)
\* DO UPDATE.  ids is the five identifier arguments; the row after the call.
cache_artist(row, ids, confidence, method) ==
    IF row = NoRow THEN IdRow(ids, confidence, method, Today)
    ELSE IdRow([f \in IdFields |-> coalesce(ids[f], row[f])],
               confidence, coalesce(method, row.resolution_method), Today)

\* One cache_artist call on the table.
CacheArtist(name, ids, confidence, method) ==
    /\ identity_cache' = [identity_cache EXCEPT ![name] =
          cache_artist(@, ids, confidence, method)]
    /\ nulled' = IF identity_cache[name] = NoRow THEN {}
                 ELSE {f \in IdFields : ids[f] = NULL}

\* identity_resolver.py:23  _CACHE_TTL_SECONDS, in days
_CACHE_TTL_DAYS == 30

\* identity_resolver.py:33
_TOP_N_OVERLAP == 3

\* identity_resolver.py:166-172  the name score of a candidate, by how its
\* normalized name relates to the artist's: equal, containing it, contained
\* in it (and longer than 2), or none of these.
NameMatches == {"equal", "contains", "within", "none"}
NameScore(m) ==
    CASE m = "equal" -> 1000 [] m = "contains" -> 500
      [] m = "within" -> 300 [] OTHER -> 0

\* identity_resolver.py:180, 199  candidates.sort(key=score, reverse=True):
\* stable, candidates of equal score keep their order.
RECURSIVE InsertByScore(_, _)
InsertByScore(s, c) ==
    IF s = <<>> THEN <<c>>
    ELSE IF Head(s).score >= c.score
         THEN <<Head(s)>> \o InsertByScore(Tail(s), c)
         ELSE <<c>> \o s

RECURSIVE SortByScoreFrom(_, _)
SortByScoreFrom(acc, cs) ==
    IF cs = <<>> THEN acc
    ELSE SortByScoreFrom(InsertByScore(acc, Head(cs)), Tail(cs))

SortByScore(cs) == SortByScoreFrom(<<>>, cs)

\* Scored without the second sort of line 199.
Scored_NoResort(raw, titles) ==
    LET named == SortByScore(
            [k \in 1 .. Len(raw) |->
                [id |-> raw[k].id, score |-> NameScore(raw[k].match),
                 overlap |-> -1, tracks |-> raw[k].tracks]])
    IN IF titles
       THEN [k \in 1 .. Len(named) |->
               IF k <= _TOP_N_OVERLAP
               THEN [named[k] EXCEPT !.overlap = named[k].tracks,
                                     !.score = @ + named[k].tracks * 200]
               ELSE named[k]]
       ELSE named

\* identity_resolver.py:163-199  the scored candidates: name score, then
\* for the first _TOP_N_OVERLAP of them (when Last.fm titles are there) the
\* overlap with their iTunes top tracks, worth 200 each, then the re-sort.
\* overlap -1 is None.
Scored(raw, titles) ==
    LET named == SortByScore(
            [k \in 1 .. Len(raw) |->
                [id |-> raw[k].id, score |-> NameScore(raw[k].match),
                 overlap |-> -1, tracks |-> raw[k].tracks]])
        boosted == [k \in 1 .. Len(named) |->
            IF k <= _TOP_N_OVERLAP
            THEN [named[k] EXCEPT !.overlap = named[k].tracks,
                                  !.score = @ + named[k].tracks * 200]
            ELSE named[k]]
    IN IF titles THEN SortByScore(boosted) ELSE named

\* Confidence one step too generous.
Confidence_OffByOne(overlap_val) ==
    IF overlap_val >= 2 THEN 100
    ELSE IF overlap_val = 1 THEN 92
    ELSE IF overlap_val = 0 THEN 86 ELSE 80

\* identity_resolver.py:211-229
Confidence(overlap_val) ==
    IF overlap_val >= 3 THEN 100
    ELSE IF overlap_val = 2 THEN 92
    ELSE IF overlap_val = 1 THEN 86 ELSE 80

ResolutionMethod(overlap_val) ==
    IF overlap_val >= 3 THEN "track_overlap_3plus"
    ELSE IF overlap_val = 2 THEN "track_overlap_2"
    ELSE IF overlap_val = 1 THEN "track_overlap_1" ELSE "name_only"

\* identity_resolver.py:250-261  _write_cache: cache_artist with the iTunes
\* id only; a failing write is logged and dropped.
WriteCache(name, itunes_id, confidence, method) ==
    \/ CacheArtist(name, [NoIds EXCEPT !.itunes_artist_id = itunes_id],
                   confidence, method)
    \/ UNCHANGED << identity_cache, nulled >>

\* CacheHit without the age test.
CacheHit_IgnoresAge(cached, force) ==
    /\ ~force
    /\ cached # NoRow /\ cached.itunes_artist_id # NULL
    /\ cached.confidence >= 85

\* identity_resolver.py:113-118  the cache check: not forced, a row with an
\* iTunes id, confidence at least 85, resolved less than 30 days ago.
CacheHit(cached, force) ==
    /\ ~force
    /\ cached # NoRow /\ cached.itunes_artist_id # NULL
    /\ cached.confidence >= 85
    /\ Today - cached.last_resolved_ts < _CACHE_TTL_DAYS

\* identity_resolver.py:72-247  resolve_artist(lastfm_name, force)
ResolveArtist(name) ==
    /\ resolved = NoResolve
    /\ LET cached == identity_cache[name]
           hit == CacheHit(cached, idin.force)
           cands == Scored(idin.cands, idin.titles)
       IN IF hit
          THEN /\ resolved' = [itunes_artist_id |-> cached.itunes_artist_id,
                               confidence |-> cached.confidence,
                               method |-> "cache_hit", fresh |-> FALSE,
                               candidates |-> 0, overlap |-> -1]
               /\ UNCHANGED << identity_cache, nulled >>
          ELSE IF idin.cands = <<>>
          THEN /\ resolved' = [itunes_artist_id |-> NULL, confidence |-> 80,
                               method |-> "itunes_no_candidates",
                               fresh |-> TRUE, candidates |-> 0,
                               overlap |-> -1]
               /\ WriteCache(name, NULL, 80, NULL)
          ELSE LET winner == cands[1]
                   confidence == Confidence(winner.overlap)
                   method == ResolutionMethod(winner.overlap)
               IN /\ resolved' = [itunes_artist_id |-> winner.id,
                                  confidence |-> confidence,
                                  method |-> method, fresh |-> TRUE,
                                  candidates |-> Len(cands),
                                  overlap |-> winner.overlap]
                  /\ WriteCache(name, winner.id, confidence, method)
    /\ UNCHANGED << is_running, last_run, last_result, queue, settings,
                    catalog, active, pc, loc, ret, manual, lastCall, idin >>
    /\ UNCHANGED << wvars, rvars, evars, cvars >>

\* scheduler.py:171-181  the cycle's write after discovery: the ids of
\* resolved_ids and SoulSync, the confidence of the resolution that came
\* just before (line 131), no resolution_method.  The caller is then done
\* with the resolution result.
SchedulerCacheWrite(name, ids) ==
    /\ resolved # NoResolve
    /\ CacheArtist(name, ids, resolved.confidence, NULL)
    /\ resolved' = NoResolve
    /\ UNCHANGED << is_running, last_run, last_result, queue, settings,
                    catalog, active, pc, loc, ret, manual, lastCall, idin >>
    /\ UNCHANGED << wvars, rvars, evars, cvars >>

\* image_service.py:284-316  one looked-up id is written (the row was read
\* some time before), everything else is left to the defaults (confidence
\* 80, no resolution_method).
ImageCacheWrite(name, f, id) ==
    /\ f \in {"mb_artist_id", "deezer_artist_id", "itunes_artist_id"}
    /\ id # NULL
    /\ CacheArtist(name, [NoIds EXCEPT ![f] = id], 80, NULL)
    /\ UNCHANGED << is_running, last_run, last_result, queue, settings,
                    catalog, active, pc, loc, ret, manual, lastCall, idin,
                    resolved >>
    /\ UNCHANGED << wvars, rvars, evars, cvars >>

\* What the iTunes search returns: up to MaxCand candidates (their ids "x",
\* "y" by position), each with a name match and the number of its top
\* tracks that are among the artist's Last.fm top tracks.
MaxCand == 3
MaxOverlap == 4
CandChoices ==
    UNION { [1 .. n -> [match : NameMatches, tracks : 0 .. MaxOverlap]] :
              n \in 0 .. MaxCand }
WithIds(cs) ==
    [k \in 1 .. Len(cs) |->
        [id |-> IF k % 2 = 1 THEN "x" ELSE "y",
         match |-> cs[k].match, tracks |-> cs[k].tracks]]

\* Identity rows a run can find: none, or one left by an earlier run.
InitIdRows ==
    {NoRow} \cup
    { IdRow([NoIds EXCEPT !.itunes_artist_id = "y"], c, NULL, ts) :
        c \in {80, 92}, ts \in {Today, Today - _CACHE_TTL_DAYS} }

InitQuiet ==
    /\ InitCommon
    /\ active = {}
    /\ catalog = [a \in {"air", "bjork"} |-> <<>>]
    /\ settings = DefaultSettings
    /\ queue = <<>>
    /\ manual = 0
    /\ passes = 0
    /\ InitNoReleaseCache
    /\ force_inputs = {FALSE}

\* Every answer of the providers, every cached row.
InitResolve ==
    /\ InitQuiet
    /\ identity_cache \in [IdArtists -> InitIdRows]
    /\ \E cs \in CandChoices, titles, force \in BOOLEAN :
         idin = [titles |-> titles, cands |-> WithIds(cs), force |-> force]
    /\ resolved = NoResolve
    /\ nulled = {}

NextResolve == \E name \in IdArtists : ResolveArtist(name)

SpecResolve == InitResolve /\ [][NextResolve]_vars

\* The rows resolve_artist can find: none, the row of a search without
\* candidates, or the row of a winner with each confidence the resolver
\* and the image service write, resolved today or 29, 30 or 31 days ago.
CachedRowChoices ==
    {NoRow} \cup
    { IdRow(NoIds, 80, NULL, ts) : ts \in {Today, Today - 30} } \cup
    { IdRow([NoIds EXCEPT !.itunes_artist_id = "y"], c, NULL, ts) :
        c \in {80, 86, 92, 100},
        ts \in {Today, Today - 29, Today - 30, Today - 31} }

InitCacheCheck ==
    /\ InitQuiet
    /\ identity_cache \in [IdArtists -> CachedRowChoices]
    /\ \E cs \in {<<>>, << [match |-> "equal", tracks |-> 1] >>},
          titles, force \in BOOLEAN :
         idin = [titles |-> titles, cands |-> WithIds(cs), force |-> force]
    /\ resolved = NoResolve
    /\ nulled = {}

SpecCacheCheck == InitCacheCheck /\ [][NextResolve]_vars

\* music_client.py:208-212  a search answer of one to four candidates, each
\* with its own id, on an artist without a cached row.
WinnerCands == <<"c1", "c2", "c3", "c4">>
InitWinner ==
    /\ InitQuiet
    /\ identity_cache = [a \in IdArtists |-> NoRow]
    /\ \E n \in 1 .. Len(WinnerCands), titles \in BOOLEAN :
       \E cs \in [1 .. n -> [match : NameMatches, tracks : {0, 1, 3}]] :
         idin = [titles |-> titles, force |-> FALSE,
                 cands |-> [k \in 1 .. n |->
                              [id |-> WinnerCands[k], match |-> cs[k].match,
                               tracks |-> cs[k].tracks]]]
    /\ resolved = NoResolve
    /\ nulled = {}

SpecWinner == InitWinner /\ [][NextResolve]_vars

\* Every order of identity writes, from an empty cache.
InitIdentity ==
    /\ InitQuiet
    /\ identity_cache = [a \in IdArtists |-> NoRow]
    /\ \E titles \in BOOLEAN :
         idin = [titles |-> titles, force |-> TRUE,
                 cands |-> WithIds(<< [match |-> "equal", tracks |-> 2] >>)]
    /\ resolved = NoResolve
    /\ nulled = {}

NextIdentity ==
    \/ \E name \in IdArtists : ResolveArtist(name)
    \/ \E name \in IdArtists, ids \in [IdFields -> IdValues] :
          SchedulerCacheWrite(name, ids)
    \/ \E name \in IdArtists, f \in IdFields, id \in IdValues :
          ImageCacheWrite(name, f, id)

SpecIdentity == InitIdentity /\ [][NextIdentity]_vars

\* ---------------------------------------------------------- release cache

\* music_client.Release as the cache functions read and build it.
Release(a, t, d, k, src, id) ==
    [artist |-> a, title |-> t, release_date |-> d, kind |-> k,
     source |-> src, itunes_album_id |-> id]

\* Python "x or None" on the way in, "x or ''" / "x or 'album'" on the way
\* out (cc_store.py:649-654, 695-697).
OrNone(x) == IF x = "" THEN NULL ELSE x
OrEmpty(x) == IF x = NULL \/ x = "" THEN "" ELSE x
OrAlbum(x) == IF x = NULL \/ x = "" THEN "album" ELSE x

MaxOf(S) == CHOOSE x \in S : \A y \in S : y <= x

\* The real rows chosen only when the artist has no sentinel row.
RealRows_SentinelWins(rows) ==
    IF \E r \in rows : r.source = "sentinel" THEN {}
    ELSE {r \in rows : r.source # "sentinel"}

\* cc_store.py:638-643  ... AND source != 'sentinel'
RealRows(rows) == {r \in rows : r.source # "sentinel"}

\* IsFresh with no age test.
IsFresh_Always(rows, max_age_days) == TRUE

\* cc_store.py:630-636  the newest cached_at of the artist's rows is at
\* most max_age_days old
IsFresh(rows, max_age_days) ==
    ~(Today - MaxOf({r.cached_at : r \in rows}) > max_age_days)

\* ... WHERE artist_name = ?
RowsOf(cache, artist) == {r \in cache : r.artist_name = artist}

\* cc_store.py:617-658  get_cached_releases: Miss is None, a hit carries
\* the releases built from the real rows (no ORDER BY: a set).
get_cached_releases(cache, artist, max_age_days) ==
    LET rows == RowsOf(cache, artist)
    IN IF rows = {} THEN Miss
       ELSE IF ~IsFresh(rows, max_age_days) THEN Miss
       ELSE [hit |-> TRUE,
             releases |->
               { Release(artist, r.album_title, OrEmpty(r.release_date),
                         OrAlbum(r.kind), r.source,
                         OrEmpty(r.itunes_album_id)) : r \in RealRows(rows) }]

\* cc_store.py:679-700  one upsert of save_releases_to_cache
UpsertRelease(cache, artist, r) ==
    LET old == {x \in cache : /\ x.artist_name = artist
                               /\ x.source = r.source
                               /\ x.album_title = r.title}
        id == IF old = {} THEN OrNone(r.itunes_album_id)
              ELSE coalesce(OrNone(r.itunes_album_id),
                            (CHOOSE x \in old : TRUE).itunes_album_id)
    IN (cache \ old) \cup
       { CacheRow(artist, r.source, r.title, r.release_date, r.kind, id,
                  Today) }

RECURSIVE UpsertAll(_, _, _)
UpsertAll(cache, artist, rs) ==
    IF rs = <<>> THEN cache
    ELSE UpsertAll(UpsertRelease(cache, artist, Head(rs)), artist, Tail(rs))

\* save_releases_to_cache writing nothing for an empty list.
save_releases_to_cache_NoSentinel(cache, artist, rs) ==
    UpsertAll(cache, artist, rs)

\* cc_store.py:661-700  save_releases_to_cache: the table after the call
save_releases_to_cache(cache, artist, rs) ==
    IF rs = <<>>
    THEN {x \in cache : ~(x.artist_name = artist /\ x.source = "sentinel")}
         \cup { Sentinel(artist, Today) }
    ELSE UpsertAll(cache, artist, rs)

RcFrame ==
    /\ UNCHANGED << is_running, last_run, last_result, queue, settings,
                    catalog, active, pc, loc, ret, manual, lastCall >>
    /\ UNCHANGED << wvars, ivars, evars, cvars >>

CacheGet(artist, max_age_days) ==
    /\ got' = [op |-> "get", artist |-> artist,
               max_age_days |-> max_age_days] @@
              get_cached_releases(release_cache, artist, max_age_days)
    /\ UNCHANGED release_cache
    /\ RcFrame

CachePut(artist, rs) ==
    /\ release_cache' = save_releases_to_cache(release_cache, artist, rs)
    /\ got' = [op |-> "put", artist |-> artist, max_age_days |-> 0,
               hit |-> FALSE, releases |-> Range(rs)]
    /\ RcFrame

CacheClear(artist) ==
    /\ release_cache' = clear_release_cache(release_cache, artist)
    /\ got' = [op |-> "clear", artist |-> artist, max_age_days |-> 0,
               hit |-> FALSE, releases |-> {}]
    /\ RcFrame

\* The artists, what the providers can return for them, and the rows an
\* earlier run can have left (written StaleDays ago).
RcArtists == {"air", "bjork"}
MaxAgeChoices == {7, 8}
StaleDays == 8
Fetched(a) ==
    IF a = "air"
    THEN { Release(a, "moon", "2024-01-01", "album", "itunes", ""),
           Release(a, "moon", "2024-01-01", "album", "itunes", "i1"),
           Release(a, "sun", "2024-01-02", "single", "itunes", "") }
    ELSE { Release(a, "sun", "2024-01-01", "album", "itunes", "i2") }
PutChoices(a) ==
    { <<>> } \cup { <<r>> : r \in Fetched(a) }
    \cup { <<r1, r2>> : r1 \in {r \in Fetched(a) : r.title = "moon"},
                        r2 \in {r \in Fetched(a) : r.title = "sun"} }
OldRows(a) ==
    { Sentinel(a, Today - StaleDays) } \cup
    { CacheRow(a, r.source, r.title, r.release_date, r.kind,
               OrNone(r.itunes_album_id), Today - StaleDays) :
        r \in {x \in Fetched(a) : x.itunes_album_id # ""} }

InitRelCache ==
    /\ InitCommon
    /\ active = {}
    /\ catalog = [a \in {"air", "bjork"} |-> <<>>]
    /\ settings = DefaultSettings
    /\ queue = <<>>
    /\ manual = 0
    /\ passes = 0
    /\ InitNoIdentity
    /\ release_cache \in SUBSET (OldRows("air") \cup OldRows("bjork"))
    /\ got = NoGot
    /\ force_inputs = {FALSE}

NextRelCache ==
    \/ \E a \in RcArtists, d \in MaxAgeChoices : CacheGet(a, d)
    \/ \E a \in RcArtists : \E rs \in PutChoices(a) : CachePut(a, rs)
    \/ \E a \in RcArtists \cup {NULL} : CacheClear(a)

SpecRelCache == InitRelCache /\ [][NextRelCache]_vars

\* ------------------------------------------------ release discovery chain

\* The provider sections of get_new_releases_for_artist, in code order.
Providers == << "spotify", "itunes", "deezer", "musicbrainz" >>
ProviderIdField(p) ==
    CASE p = "spotify" -> "spotify_artist_id"
      [] p = "itunes" -> "itunes_artist_id"
      [] p = "deezer" -> "deezer_artist_id"
      [] p = "musicbrainz" -> "mb_artist_id"

\* What a provider request can run into: requests.Timeout, a non-2xx
\* status (raise_for_status), a body that is not JSON, a JSON body of
\* another shape than the client reads (a list, an entry without its id).
Failures == {"timeout", "http_error", "not_json", "bad_shape"}

\* music_client.py:83-95, 250-261, 331-348  _itunes_get, _deezer_get,
\* _mb_get and the code that reads their value: "none" (the exception was
\* caught and None returned), "raise" (an exception leaves the client) or
\* "data".  Only requests.RequestException is caught: a timeout and a
\* non-2xx status are; resp.json() of a non-JSON body raises a
\* RequestException from requests 2.27 on and a plain ValueError before;
\* a body of another shape is returned and fails where it is read
\* (data.get(...) of a list, data["results"][0]["artistId"], rel["id"]).
HttpGet(o) ==
    CASE o \in {"timeout", "http_error"} -> {"none"}
      [] o = "not_json" -> {"none", "raise"}
      [] o = "bad_shape" -> {"raise"}
      [] OTHER -> {"data"}

\* music_client.py:456-465, 471-498  the spotipy calls sit inside
\* "except Exception": every failure is caught.
SpotifyGet(o) == IF o \in Failures THEN {"none"} ELSE {"data"}

\* music_client.py:527-529 with the settings of the default configuration:
\* the lookback, the lower-cased ignore keywords, CC_RELEASE_KINDS.
LookbackDays == 30
IgnoreKw == {"remix"}
AllowedKinds == {"album", "single", "ep"}

\* What a provider lists for an artist: title, release date (a day number,
\* dated FALSE when the date string is empty or does not parse) and kind.
Item(t, d, k) == [title |-> t, date |-> d, kind |-> k, dated |-> TRUE]
ItemOld == Item("dew", Today - LookbackDays - 1, "album")
ItemNew == Item("moon", Today - 1, "album")
ItemFuture == Item("fog", Today + 1, "album")
ItemRemix == Item("sun remix", Today - 1, "album")
ItemCompilation == Item("sun", Today, "compilation")
ItemUndated == [Item("dew", 0, "album") EXCEPT !.dated = FALSE]
ItemChoices ==
    { <<>>, <<ItemOld>>, <<ItemNew>>, <<ItemFuture>>, <<ItemRemix>>,
      <<ItemCompilation>>, <<ItemUndated>>, <<ItemNew, ItemFuture>> }

\* music_client.py:152-179 (iTunes), 291-307 (Deezer), 396-410
\* (MusicBrainz), 475-483 (Spotify)  the tests an item passes to become a
\* Release: a date that parses, not before the cutoff, not after now
\* (iTunes and Deezer only), no ignore keyword in the title, an allowed
\* kind (iTunes takes any other kind as an album).
KeepItem(p, item) ==
    /\ item.dated
    /\ item.date >= Today - LookbackDays
    /\ p \in {"itunes", "deezer"} => ~(item.date > Today)
    /\ ~HasKeyword(Lower(item.title), IgnoreKw)
    /\ item.kind \in AllowedKinds \/ (p = "itunes" /\ "album" \in AllowedKinds)

\* music_client.py:168-188, 308-316, 411-418, 484-492  the Release built
\* from an item that is kept (MusicBrainz leaves the artist to the caller).
\* (No title of the universe ends in "- single" or "- ep".)
ToRelease(p, a, item) ==
    [artist |-> IF p = "musicbrainz" THEN "" ELSE a, title |-> item.title, release_date |-> item.date,
     kind |-> IF item.kind \in AllowedKinds THEN item.kind ELSE "album",
     source |-> p]

RECURSIVE Releases(_, _, _)
Releases(p, a, items) ==
    IF items = <<>> THEN <<>>
    ELSE (IF KeepItem(p, Head(items))
          THEN << ToRelease(p, a, Head(items)) >> ELSE <<>>)
         \o Releases(p, a, Tail(items))

Call(p, op, o) == [provider |-> p, op |-> op, outcome |-> o]

\* What one provider section does: the requests it makes, the artist id it
\* ends with, the releases it yields, whether an exception leaves it.
Section(calls, id, releases, raised) ==
    [calls |-> calls, id |-> id, releases |-> releases, raised |-> raised]

\* music_client.py:434-500  _spotify_get_releases: the search is skipped
\* when the artist id is known; each failure gives [].  (One page of
\* albums; a failure on a later page keeps the earlier pages.)
SpotifySection(a, id0, so, ro, items) ==
    LET search == IF id0 = NULL THEN << Call("spotify", "search", so) >>
                  ELSE <<>>
        found == id0 # NULL \/ so = "artist"
        albums == << Call("spotify", "releases", ro) >>
    IN IF ~found
       THEN { Section(search, NULL, <<>>, FALSE) }
       ELSE { Section(search \o albums, NULL,
                      IF g = "data" THEN Releases("spotify", a, items)
                      ELSE <<>>, FALSE) : g \in SpotifyGet(ro) }

\* music_client.py:549-554, 563-568, 580-587 with the functions they call
\* (113-189, 264-321, 369-423): the artist search unless the id is cached,
\* then the releases request.
HttpSection(p, a, id0, so, ro, items) ==
    LET search == IF id0 = NULL THEN << Call(p, "search", so) >> ELSE <<>>
        lookup == << Call(p, "releases", ro) >>
        sg == IF id0 # NULL THEN {"data"} ELSE HttpGet(so)
        id == IF id0 # NULL THEN id0 ELSE IF so = "artist" THEN "x" ELSE NULL
    IN UNION { IF g = "raise"
               THEN { Section(search, NULL, <<>>, TRUE) }
               ELSE IF g = "none" \/ id = NULL
               THEN { Section(search, NULL, <<>>, FALSE) }
               ELSE { Section(search \o lookup, id,
                              IF h = "data" THEN Releases(p, a, items)
                              ELSE <<>>,
                              h = "raise") : h \in HttpGet(ro) }
             : g \in sg }

\* music_client.py:580-587  the MusicBrainz section: without a cached id
\* the id is first looked up by the Spotify artist id, when there is one.
MbSection(a, id0, sp_id, xo, so, ro, items) ==
    IF id0 # NULL \/ sp_id = NULL
    THEN HttpSection("musicbrainz", a, id0, so, ro, items)
    ELSE LET resolve == << Call("musicbrainz", "resolve", xo) >>
         IN UNION { IF g = "raise"
                    THEN { Section(resolve, NULL, <<>>, TRUE) }
                    ELSE { [r EXCEPT !.calls = resolve \o @] :
                             r \in HttpSection("musicbrainz", a,
                                     IF g = "data" /\ xo = "artist"
                                     THEN "x" ELSE NULL, so, ro, items) }
                  : g \in HttpGet(xo) }

\* InChain with MusicBrainz part of the auto chain.
InChain_MbInAuto(p, provider, spotify_available) ==
    /\ provider \in {p, "auto"}
    /\ p = "spotify" => spotify_available

\* music_client.py:538, 548, 562, 579  whether the section of p runs.
InChain(p, provider, spotify_available) ==
    CASE p = "spotify" -> provider \in {"spotify", "auto"} /\ spotify_available
      [] p = "musicbrainz" -> provider = "musicbrainz"
      [] OTHER -> provider \in {p, "auto"}

AfterProvider(p) ==
    CASE p = "spotify" -> "itunes"
      [] p = "itunes" -> "deezer"
      [] p = "deezer" -> "musicbrainz"
      [] OTHER -> "done"

DiscFrame ==
    /\ UNCHANGED << is_running, last_run, last_result, queue, settings,
                    catalog, active, pc, loc, ret, manual, lastCall >>
    /\ UNCHANGED << wvars, ivars, rvars, evars, limiter, own >>

SearchOutcomes == Failures \cup {"no_artist", "artist"}
ReleaseOutcomes == Failures \cup {"ok"}
DiscArtist == "air"

\* music_client.py:527-535  the call starts: config, cached_ids and the
\* spotify_artist_id argument.  Neither this function nor its caller
\* (scheduler.py:160-167) reads release_cache.
GetNewReleasesForArtist(provider, spotify_available, cached_ids, sp_arg) ==
    /\ disc.pc = "idle"
    /\ disc' = [NoDisc EXCEPT
          !.pc = "spotify", !.provider = provider,
          !.spotify_available = spotify_available,
          !.ids = [cached_ids EXCEPT !.spotify_artist_id =
                      IF sp_arg # NULL THEN sp_arg ELSE @],
          !.cached = get_cached_releases(release_cache, DiscArtist, 7)]
    /\ DiscFrame

\* music_client.py:537-592  one provider section and what follows it:
\* return the releases it yielded, return [] when it is the configured
\* provider, go on to the next section otherwise.  An exception leaves
\* the function.  Nothing is written to release_cache.
QueryProvider(p) ==
    /\ disc.pc = p
    /\ IF ~InChain(p, disc.provider, disc.spotify_available)
       THEN disc' = [disc EXCEPT !.pc = AfterProvider(p)]
       ELSE \E xo \in SearchOutcomes, so \in SearchOutcomes,
               ro \in ReleaseOutcomes, items \in ItemChoices :
            \E r \in CASE p = "spotify" ->
                          SpotifySection(DiscArtist,
                              disc.ids.spotify_artist_id, so, ro, items)
                       [] p = "musicbrainz" ->
                          MbSection(DiscArtist, disc.ids.mb_artist_id,
                              disc.ids.spotify_artist_id, xo, so, ro, items)
                       [] OTHER ->
                          HttpSection(p, DiscArtist,
                              disc.ids[ProviderIdField(p)], so, ro, items) :
              disc' = [disc EXCEPT
                  !.calls = @ \o r.calls,
                  !.tried = Append(@, [provider |-> p,
                                       n |-> Len(r.releases)]),
                  !.ids = IF r.id # NULL
                          THEN [@ EXCEPT ![ProviderIdField(p)] = r.id]
                          ELSE @,
                  !.raised = r.raised,
                  !.releases = r.releases,
                  !.pc = IF r.raised \/ r.releases # <<>>
                            \/ disc.provider = p
                         THEN "done" ELSE AfterProvider(p)]
    /\ DiscFrame

\* The ids an earlier call can have cached, and the releases an earlier
\* run can have left in the cache for the artist.
CachedIdChoices ==
    { NoIds, [f \in IdFields |-> IF f = "soulsync_artist_id" THEN NULL
                                 ELSE "x"] }
ProviderChoices == {"auto", "spotify", "itunes", "deezer", "musicbrainz"}

InitChain ==
    /\ InitCommon
    /\ active = {}
    /\ catalog = [a \in {"air", "bjork"} |-> <<>>]
    /\ settings = DefaultSettings
    /\ queue = <<>>
    /\ manual = 0
    /\ passes = 0
    /\ InitNoIdentity
    /\ release_cache \in
         { {}, { Sentinel(DiscArtist, Today - 1) },
           { CacheRow(DiscArtist, "itunes", "moon", "2024-01-01", "album",
                      NULL, Today - 1) } }
    /\ got = NoGot
    /\ force_inputs = {FALSE}

NextChain ==
    \/ \E provider \in ProviderChoices, avail \in BOOLEAN,
          ids \in CachedIdChoices, sp \in {NULL, "x"} :
          GetNewReleasesForArtist(provider, avail, ids, sp)
    \/ \E i \in DOMAIN Providers : QueryProvider(Providers[i])

SpecChain == InitChain /\ [][NextChain]_vars

\* ------------------------------------------------------ ownership check

NoArgs == OwnArgs("", "", NULL, NULL, NULL, NULL, NULL, NULL)

\* A library where the id tiers and the text tier point at different
\* tracks: "Air" (scanned, with provider ids) and "air" (a second artist
\* row of the same name), two albums called Moon/moon, an album Sun.
OwnLibrary ==
    [artists |-> { Artist("1", "Air", "ia", "sa"),
                   Artist("2", "air", NULL, NULL) },
     albums |-> { Album("A1", "1", "Moon", "i1", "d1", "s1"),
                  Album("A2", "2", "moon", NULL, NULL, NULL),
                  Album("A3", "1", "Sun", "i9", NULL, NULL) },
     tracks |-> { Track("t1", "1", "A1"), Track("t2", "2", "A2"),
                  Track("t3", "1", "A3"), Track("t4", "1", "A1") }]

ArgChoices ==
    { OwnArgs(an, al, ss, sp, it, dz, spal, ital) :
        an \in {"", "air"}, al \in {"", "moon", "sun", "fog"},
        ss \in {NULL, "1", "2"}, sp \in {NULL, "sa"}, it \in {NULL, "ia"},
        dz \in {NULL, "d1"}, spal \in {NULL, "s1"},
        ital \in {NULL, "i1", "i9"} }

\* scheduler.py:222-230  a check_album_owned call and what it returned.
CheckAlbumOwned(args, fails) ==
    /\ own.n = 0
    /\ \E k \in check_album_owned(args, OwnLibrary, fails) :
         own' = [n |-> 1, args |-> args, fails |-> fails, result |-> k]
    /\ UNCHANGED << is_running, last_run, last_result, queue, settings,
                    catalog, active, pc, loc, ret, manual, lastCall >>
    /\ UNCHANGED << wvars, ivars, rvars, evars, disc, limiter >>

InitOwned ==
    /\ InitCommon
    /\ active = {}
    /\ catalog = [a \in {"air", "bjork"} |-> <<>>]
    /\ settings = DefaultSettings
    /\ queue = <<>>
    /\ manual = 0
    /\ passes = 0
    /\ InitNoIdentity
    /\ InitNoReleaseCache
    /\ force_inputs = {FALSE}

NextOwned ==
    \E args \in ArgChoices, fails \in {NULL} \cup Range(Tiers) :
       CheckAlbumOwned(args, fails)

SpecOwned == InitOwned /\ [][NextOwned]_vars

\* ------------------------------------------------- the rate limiters

MaxNow == 62
MaxCalls == 3
TickChoices == {11, 20, 31}

LimiterFrame ==
    /\ UNCHANGED << is_running, last_run, last_result, queue, settings,
                    catalog, active, pc, loc, ret, manual, lastCall >>
    /\ UNCHANGED << wvars, ivars, rvars, evars, disc, own >>

Started ==
    Len(limiter.sent["itunes"]) + Len(limiter.sent["musicbrainz"])
       + Cardinality({c \in Callers : limiter.caller[c].pc # "idle"})

\* time passes
Tick(d) ==
    /\ limiter.now + d <= MaxNow
    /\ limiter' = [limiter EXCEPT !.now = @ + d]
    /\ LimiterFrame

\* music_client.py:83, 331  a thread enters _itunes_get or _mb_get
GetEnter(c, p) ==
    /\ limiter.caller[c].pc = "idle"
    /\ Started < MaxCalls
    /\ limiter' = [limiter EXCEPT !.caller[c] =
                      [pc |-> "elapsed", provider |-> p, wake |-> 0]]
    /\ LimiterFrame

\* music_client.py:85-87, 333-335  elapsed = monotonic() - last_call;
\* if elapsed < interval: sleep(interval - elapsed)
GetElapsed(c) ==
    LET p == limiter.caller[c].provider
        elapsed == limiter.now - limiter.last_call[p] IN
    /\ limiter.caller[c].pc = "elapsed"
    /\ limiter' = [limiter EXCEPT !.caller[c] =
                      IF elapsed < RateInterval(p)
                      THEN [@ EXCEPT !.pc = "sleep",
                              !.wake = limiter.now + (RateInterval(p) - elapsed)]
                      ELSE [@ EXCEPT !.pc = "stamp"]]
    /\ LimiterFrame

\* music_client.py:87, 335  time.sleep returns once the time has passed
GetWake(c) ==
    /\ limiter.caller[c].pc = "sleep"
    /\ limiter.now >= limiter.caller[c].wake
    /\ limiter' = [limiter EXCEPT !.caller[c].pc = "stamp"]
    /\ LimiterFrame

\* music_client.py:88-90, 336-344  last_call = monotonic(); the request
\* goes out
GetSend(c) ==
    LET p == limiter.caller[c].provider IN
    /\ limiter.caller[c].pc = "stamp"
    /\ limiter' = [limiter EXCEPT
                      !.last_call[p] = limiter.now,
                      !.sent[p] = Append(@, limiter.now),
                      !.caller[c] = NoCaller]
    /\ LimiterFrame

NextLimiter ==
    \/ \E d \in TickChoices : Tick(d)
    \/ \E c \in Callers, p \in Limited : GetEnter(c, p)
    \/ \E c \in Callers : GetElapsed(c)
    \/ \E c \in Callers : GetWake(c)
    \/ \E c \in Callers : GetSend(c)

SpecLimiter == InitOwned /\ [][NextLimiter]_vars

\* ---------------------------------------------------- the background loop

MaxHour == 27
MaxCycleHours == 1
MaxThreads == 2

\* datetime fields of an hour count: date(), hour, weekday() (Monday = 0).
DateOf(h) == h \div 24
HourOf(h) == h % 24
WeekdayOf(h) == DateOf(h) % 7

\* _should_run_cc without the test of cc_last_run in day/time mode.
_should_run_cc_NoLastRun(cfg, now, last_run_iso) ==
    IF cfg.weekday >= 0 /\ cfg.hour >= 0
    THEN WeekdayOf(now) = cfg.weekday /\ HourOf(now) = cfg.hour
    ELSE last_run_iso = NoTime \/ now - last_run_iso >= cfg.cycle_hours

\* scheduler.py:520-547
_should_run_cc(cfg, now, last_run_iso) ==
    IF cfg.weekday >= 0 /\ cfg.hour >= 0
    THEN IF WeekdayOf(now) # cfg.weekday \/ HourOf(now) # cfg.hour
         THEN FALSE
         ELSE ~( /\ last_run_iso # NoTime
                 /\ DateOf(last_run_iso) = DateOf(now)
                 /\ HourOf(last_run_iso) = HourOf(now) )
    ELSE IF last_run_iso = NoTime THEN TRUE
         ELSE now - last_run_iso >= cfg.cycle_hours

\* scheduler.py:504-517
_should_weekly_refresh(cfg, now, last_cleared) ==
    IF WeekdayOf(now) # cfg.refresh_weekday \/ HourOf(now) < cfg.refresh_hour
    THEN FALSE
    ELSE last_cleared # DateOf(now)

\* The last element of a log and a new one.
LastTwo(log, x) == IF log = <<>> THEN <<x>> ELSE << log[Len(log)], x >>

LoopFrame ==
    /\ UNCHANGED << is_running, last_run, last_result, queue, settings,
                    catalog, active, pc, loc, ret, manual, lastCall >>
    /\ UNCHANGED << wvars, ivars, rvars, cvars, force_inputs >>

\* The schedules a user saves: day/time (Monday 01:00) or interval (every 2
\* or 24 hours), each with the cache refresh on Monday from 00:00; the
\* loop disabled; a weekday that is not a number.
Schedule(wd, ch) ==
    [saved |-> TRUE, enabled |-> TRUE, valid |-> TRUE, weekday |-> wd,
     hour |-> IF wd >= 0 THEN 1 ELSE -1, cycle_hours |-> ch,
     refresh_weekday |-> 0, refresh_hour |-> 0]
CfgChoices ==
    { Schedule(0, 24), Schedule(-1, 2), Schedule(-1, 24),
      [Schedule(-1, 24) EXCEPT !.enabled = FALSE],
      [Schedule(0, 24) EXCEPT !.valid = FALSE] }

\* routes/new_music.py:86-100  cc_config_save: set_setting(key, str(value))
\* for each key, unvalidated; config.py:55 CC_ENABLED.
ConfigSave(cfg) ==
    /\ lp.pc = "off" /\ ~lp.cfg.saved /\ lp.now = 0
    /\ lp' = [lp EXCEPT !.cfg = cfg]
    /\ LoopFrame

\* An hour passes: before the thread is started, after it has ended, or
\* during a cycle.
ClockPass ==
    /\ lp.now < MaxHour
    /\ \/ lp.pc \in {"off", "dead", "crashed"}
       \/ lp.pc = "cycle" /\ lp.dur < MaxCycleHours
    /\ lp' = [lp EXCEPT !.now = @ + 1,
                        !.dur = IF lp.pc = "cycle" THEN @ + 1 ELSE @]
    /\ LoopFrame

\* scheduler.py:575-583  start(): nothing when the thread is alive, else
\* the event is cleared and a thread begins _loop.
SchedStart ==
    /\ lp.cfg.saved
    /\ lp.pc \in {"off", "dead", "crashed"}
    /\ lp.threads < MaxThreads
    /\ lp' = [lp EXCEPT !.pc = "test", !.stop = FALSE, !.threads = @ + 1]
    /\ LoopFrame

\* scheduler.py:586-589  stop(): _stop_event.set()
SchedStop ==
    /\ lp.pc \notin {"off", "dead", "crashed"}
    /\ ~lp.stop
    /\ lp' = [lp EXCEPT !.stop = TRUE]
    /\ LoopFrame

\* LoopTest without the test of the stop event.
LoopTest_IgnoresStop ==
    /\ lp.pc = "test"
    /\ lp' = [lp EXCEPT !.worked = 0, !.ran = FALSE,
                        !.pc = IF lp.cfg.enabled THEN "sched" ELSE "worker"]
    /\ LoopFrame

\* scheduler.py:552-553  while not _stop_event.is_set(): if CC_ENABLED
LoopTest ==
    /\ lp.pc = "test"
    /\ lp' = IF lp.stop THEN [lp EXCEPT !.pc = "dead"]
             ELSE [lp EXCEPT !.worked = 0, !.ran = FALSE,
                             !.pc = IF lp.cfg.enabled THEN "sched"
                                    ELSE "worker"]
    /\ LoopFrame

\* scheduler.py:554-564  the settings are read and the schedule tested
\* (int() of a setting that is no number raises out of _loop); when a
\* cycle is due the refresh is decided and recorded and run_cycle is
\* called, which runs the stages or returns skipped at once when a manual
\* cycle holds the flag.
LoopSchedule ==
    /\ lp.pc = "sched"
    /\ IF ~lp.cfg.valid
       THEN lp' = [lp EXCEPT !.pc = "crashed"]
       ELSE IF ~_should_run_cc(lp.cfg, lp.now, lp.cc_last_run)
       THEN lp' = [lp EXCEPT !.pc = "worker"]
       ELSE LET force == _should_weekly_refresh(lp.cfg, lp.now,
                                                lp.last_cleared)
                due == [lp EXCEPT
                          !.last_cleared =
                              IF force THEN DateOf(lp.now) ELSE @,
                          !.forced =
                              IF force THEN LastTwo(@, DateOf(lp.now))
                              ELSE @]
            IN \/ lp' = [due EXCEPT !.pc = "cycle", !.ran = TRUE,
                                    !.dur = 0,
                                    !.begun_stopped = lp.stop,
                                    !.started = LastTwo(@, lp.now)]
               \/ lp' = [due EXCEPT !.pc = "worker",
                                    !.cc_last_run = lp.now]
    /\ LoopFrame

\* scheduler.py:564-565  run_cycle returns (it catches what a stage
\* raises); cc_last_run = now
LoopCycleEnd ==
    /\ lp.pc = "cycle"
    /\ lp' = [lp EXCEPT !.pc = "worker", !.cc_last_run = lp.now]
    /\ LoopFrame

\* scheduler.py:566-571  check_queue, an exception of it logged and dropped
LoopWorker ==
    /\ lp.pc = "worker"
    /\ lp' = [lp EXCEPT !.pc = "wait", !.worked = @ + 1]
    /\ LoopFrame

\* scheduler.py:572  _stop_event.wait(timeout=3600): an hour, or no time
\* when the event is set
LoopWait ==
    /\ lp.pc = "wait"
    /\ lp.stop \/ lp.now < MaxHour
    /\ lp' = [lp EXCEPT !.pc = "test",
                        !.now = IF lp.stop THEN @ ELSE @ + 1]
    /\ LoopFrame

LoopStep ==
    \/ LoopTest
    \/ LoopSchedule
    \/ LoopCycleEnd
    \/ LoopWorker
    \/ LoopWait

NextLoop ==
    \/ \E cfg \in CfgChoices : ConfigSave(cfg)
    \/ ClockPass
    \/ SchedStart
    \/ SchedStop
    \/ LoopTest
    \/ LoopSchedule
    \/ LoopCycleEnd
    \/ LoopWorker
    \/ LoopWait

SpecLoop == InitOwned /\ [][NextLoop]_vars

\* The thread is scheduled: a step of _loop that can be taken is taken.
SpecLoopLive == SpecLoop /\ WF_vars(LoopStep)

\* ------------------------------------------------------------ C1 .. C4

\* The thread is inside _execute_cycle (scheduler.py:63).
InCycle(t) == pc[t] \in {"begin", "s1", "s5", "s6", "s7"}

\* The thread is between line 59 (flag set) and line 71 (flag cleared).
HoldsFlag(t) ==
    pc[t] \in {"begin", "s1", "s5", "s6", "s7", "return", "except", "finally"}

\* C1: under every interleaving of the loop thread and the manual run
\* threads, at most one thread is executing the stage sequence.
C1_AtMostOneCycle == Cardinality({t \in Threads : InCycle(t)}) <= 1

\* C2: a run_cycle call that finds is_running true returns
\* {skipped, already_running} at once: it enters no stage (its locals stay
\* untouched, no discovery, no enqueue) and leaves is_running, last_run and
\* last_result as they were.
C2_SkipWhileRunning ==
    [][\A t \in Threads :
         (pc[t] = "check" /\ is_running /\ pc'[t] # "check")
         => /\ pc'[t] = "done"
            /\ ret'[t] = Skipped
            /\ loc'[t] = loc[t] /\ loc[t].discovered = {} /\ loc[t].enq = <<>>
            /\ UNCHANGED << is_running, last_run, last_result, queue >>]_vars

C2_Witness ==
    \E t \in Threads, u \in Threads :
        /\ pc[t] = "done" /\ ret[t] = Skipped
        /\ InCycle(u) /\ is_running

\* C3: a run_cycle call that set the flag clears it when it returns,
\* whether the stage sequence completed, returned early or raised; and the
\* flag is never true while no call is between setting and clearing it.
C3_FlagReleased ==
    /\ [](is_running => \E t \in Threads : HoldsFlag(t))
    /\ [][\A t \in Threads :
            (HoldsFlag(t) /\ ~HoldsFlag(t)')
            => (pc'[t] = "done" /\ is_running' = FALSE)]_vars

C3_Witness ==
    \E t \in Threads :
        /\ pc[t] = "done" /\ ret[t] = ErrorResult
        /\ ~is_running
        /\ \A u \in Threads : ~HoldsFlag(u)

\* C4 as claimed: a failure raised in any of stages 1-8 makes run_cycle
\* record and return the error result.
C4_AnyFailureIsError ==
    \A t \in Threads :
        (pc[t] = "finally" /\ loc[t].failed # {}) => ret[t] = ErrorResult

\* C4 amended: a failure raised outside the stage-local try blocks makes
\* run_cycle record the error result as last_result and return it; a failure
\* caught inside stage 7 or inside an auto-sync rebuild leaves the cycle to
\* return its ok result; in either case the call reaches its return.
C4_UncaughtFailureIsError ==
    /\ [](\A t \in Threads :
            pc[t] = "finally"
            => /\ (loc[t].failed \ Caught # {}) <=> (ret[t] = ErrorResult)
               /\ (loc[t].failed \subseteq Caught) <=> (ret[t].status = "ok"))
    /\ [][\A t \in Threads :
            (pc[t] = "except" /\ pc'[t] # "except")
            => (last_result' = ErrorResult /\ pc'[t] = "finally")]_vars

C4_Witness ==
    \E t \in Threads :
        /\ pc[t] = "finally" /\ loc[t].failed \ Caught # {}
        /\ ret[t] = ErrorResult /\ last_result = ErrorResult

\* ----------------------------------------------------------- C5 .. C10


\* The call's stage sequence ran to its normal end (line 392).
Completed(t) ==
    pc[t] = "finally" /\ ret[t].status = "ok" /\ ret[t].message = ""

\* C5: a dry cycle makes no add_to_queue call, no playlist save, no
\* auto-sync rebuild and no history write; a playlist cycle makes no
\* add_to_queue call and, when it completes without a stage-7 failure, has
\* saved the playlist; a cruise cycle that completes has called add_to_queue
\* for every release it selected (at least one when a release is eligible
\* and the cap is positive) and, without a stage-7 failure, has saved the
\* playlist.
C5_ModeGating ==
    \A t \in Threads :
        LET l == loc[t] IN
        /\ l.run_mode = "dry"
           => (l.enq = <<>> /\ l.saves = 0 /\ l.syncs = 0 /\ l.hist = 0)
        /\ l.run_mode = "playlist" => l.enq = <<>>
        /\ (Completed(t) /\ l.run_mode \in {"playlist", "cruise"}
              /\ "s7" \notin l.failed)
           => l.saves = 1
        /\ (Completed(t) /\ l.run_mode = "cruise")
           => /\ l.enq = l.to_queue
              /\ (l.new_unowned # <<>> /\ settings.cc_max_per_cycle > 0)
                 => Len(l.enq) >= 1

C5_Witness ==
    \E t \in Threads :
        /\ Completed(t) /\ loc[t].run_mode = "cruise"
        /\ Len(loc[t].enq) >= 1 /\ loc[t].saves = 1

\* C6: every artist handed to identity resolution and discovery has at
\* least cc_min_listens plays; when no artist has, the call returns
\* {ok, no_qualified_artists} and has run no later stage.
C6_QualificationThreshold ==
    \A t \in Threads :
        LET l == loc[t] IN
        /\ \A a \in l.discovered : TopArtists[a] >= settings.cc_min_listens
        /\ (pc[t] = "finally" /\ l.failed = {}
              /\ \A a \in DOMAIN TopArtists :
                    TopArtists[a] < settings.cc_min_listens)
           => /\ ret[t] = EarlyResult
              /\ l.discovered = {} /\ l.unique_releases = <<>>
              /\ l.enq = <<>> /\ l.saves = 0 /\ l.syncs = 0 /\ l.hist = 0

C6_Witness ==
    \E t \in Threads :
        /\ pc[t] = "finally" /\ settings.cc_min_listens = 5
        /\ loc[t].discovered = {"air"} /\ loc[t].failed = {}

\* C7: in a cruise cycle with cap K >= 0 the releases enqueued are a prefix
\* of the eligible unowned releases taken newest first, the cycle never makes
\* more than K add_to_queue calls, a cycle that completes has enqueued
\* exactly min(N, K) of its N eligible releases, and the reported 'queued'
\* is the number of calls.
C7_MaxPerCycleCap ==
    \A t \in Threads :
        LET l == loc[t]
            K == settings.cc_max_per_cycle
            N == Len(l.new_unowned)
        IN /\ \A i \in 1 .. N : \A j \in 1 .. N :
                i < j => l.new_unowned[i].release_date
                           >= l.new_unowned[j].release_date
           /\ Len(l.enq) <= K /\ Len(l.enq) <= N
           /\ l.enq = SubSeq(l.new_unowned, 1, Len(l.enq))
           /\ l.queued_count = Len(l.enq)
           /\ Completed(t)
              => /\ ret[t].queued = Len(l.enq)
                 /\ l.run_mode = "cruise" => Len(l.enq) = Min(N, K)

C7_Witness ==
    \E t \in Threads :
        /\ Completed(t) /\ loc[t].run_mode = "cruise"
        /\ settings.cc_max_per_cycle = 2
        /\ Len(loc[t].new_unowned) = 3 /\ Len(loc[t].enq) = 2
        /\ loc[t].enq[1].release_date > loc[t].enq[2].release_date

\* C8: the queue never holds two rows with the same (artist, album-title)
\* pair, and an add_to_queue call for a pair that has a pending row returns
\* that row's id and leaves the table as it was.
C8_QueueDedup ==
    /\ [](\A i \in 1 .. Len(queue) : \A j \in 1 .. Len(queue) :
            (queue[i].artist_name = queue[j].artist_name
               /\ queue[i].album_title = queue[j].album_title) => i = j)
    /\ [][lastCall' # lastCall
          => \A i \in 1 .. Len(queue) :
               (/\ queue[i].artist_name = lastCall'.artist
                /\ queue[i].album_title = lastCall'.title
                /\ queue[i].status = "pending")
               => (lastCall'.id = queue[i].id /\ queue' = queue)]_vars

\* C9: a release a cruise cycle enqueues was classified unowned by that
\* cycle and is not dated after today, and when the cycle selected it
\* (stage 5) the queue held no pending or submitted row for its pair.
C9_EnqueueOnlyEligible ==
    /\ [](\A t \in Threads : \A r \in Range(loc[t].enq) :
            /\ loc[t].run_mode = "cruise"
            /\ r \in Range(loc[t].unowned)
            /\ << Lower(r.artist), Lower(r.title) >> \notin Library
            /\ r.release_date <= Today
            /\ r \in Range(loc[t].to_queue))
    /\ [][\A t \in Threads :
            (pc[t] = "s5" /\ pc'[t] # "s5")
            => \A r \in Range(loc'[t].to_queue) :
                 ~\E i \in 1 .. Len(queue) :
                     /\ Lower(queue[i].artist_name) = Lower(r.artist)
                     /\ Lower(queue[i].album_title) = Lower(r.title)
                     /\ queue[i].status \in {"pending", "submitted"}]_vars

C9_Witness ==
    \E t \in Threads :
        /\ Len(loc[t].enq) >= 1
        /\ Len(loc[t].new_unowned) < Len(loc[t].unowned)
        /\ Len(queue) >= 2 /\ queue[1].status = "submitted"

\* C10: after a cruise cycle has enqueued a release, the queue holds a
\* pending row for the release's (artist, album) pair, also when a found,
\* failed or skipped row for the pair was there before.
C10_RequeueAfterTerminal ==
    \A t \in Threads :
        Completed(t)
        => \A r \in Range(loc[t].enq) :
             \E i \in 1 .. Len(queue) :
                 /\ Lower(queue[i].artist_name) = Lower(r.artist)
                 /\ Lower(queue[i].album_title) = Lower(r.title)
                 /\ queue[i].status = "pending"

\* ---------------------------------------------------------- C11 .. C13

StatusOf(q, id) == q[CHOOSE k \in 1 .. Len(q) : q[k].id = id].status

\* C11: every status change of a queue row is pending -> submitted,
\* submitted -> found or submitted -> failed (so found and failed are
\* final), and the step that makes it is a step of the acquisition worker.
C11_StatusLifecycle ==
    [][\A k \in 1 .. Len(queue) :
         queue'[k].status # queue[k].status
         => /\ << queue[k].status, queue'[k].status >> \in
                 { <<"pending", "submitted">>, <<"submitted", "found">>,
                   <<"submitted", "failed">> }
            /\ \E w \in Workers : acq'[w] # acq[w]]_vars

\* C12: when a check_queue pass is over, every row its re-check found in
\* the library is in state found, whatever its age: the timeout of the same
\* pass has not set it to failed.
C12_FoundSurvivesTimeout ==
    \A w \in Workers :
        acq[w].pc = "done"
        => \A id \in acq[w].found : StatusOf(queue, id) = "found"

\* C13: a pass fetches every submitted row; its timeout loop visits each of
\* them and sets to failed the row created more than timeout-days ago that
\* the re-check did not find, leaves alone the row younger than the
\* timeout, and touches no other row; nothing else sets a row to failed.
C13_TimeoutOnlyStale ==
    [][\A w \in Workers :
         LET days == settings.cc_acquisition_timeout_days
         IN /\ (acq[w].pc = "idle" /\ acq'[w].pc \notin {"idle", "raised"})
               => \A k \in 1 .. Len(queue) :
                    queue[k].status = "submitted"
                    <=> queue[k] \in Range(acq'[w].submitted)
            /\ (acq[w].pc = "timeout" /\ acq'[w] # acq[w])
               => LET item == acq[w].submitted[acq[w].i]
                  IN /\ (item.created_at < Today - days
                            /\ item.id \notin acq[w].found)
                        => StatusOf(queue', item.id) = "failed"
                     /\ item.created_at > Today - days
                        => StatusOf(queue', item.id) = StatusOf(queue, item.id)
                     /\ \A k \in 1 .. Len(queue) :
                          queue[k].id # item.id => queue'[k] = queue[k]
                     /\ (acq'[w].pc = "done" <=> acq[w].i = Len(acq[w].submitted))
            /\ (acq[w].pc # "timeout" /\ acq'[w] # acq[w])
               => \A k \in 1 .. Len(queue) :
                    queue'[k].status = "failed" => queue[k].status = "failed"]_vars

C13_Witness ==
    \E w \in Workers :
        /\ acq[w].pc = "done"
        /\ Len(acq[w].submitted) = 2
        /\ acq[w].found = {}
        /\ \E a, b \in 1 .. 2 :
             /\ acq[w].timed_out = {a} /\ b # a
             /\ StatusOf(queue, a) = "failed"
             /\ StatusOf(queue, b) = "submitted"

\* ---------------------------------------------------------- C14 .. C15

\* C14: an identifier field of an artist's identity row that holds a value
\* keeps that value through every write that passes NULL for the field, and
\* no step of any writer, in any order, leaves it NULL.
C14_NullNeverClears ==
    [][\A a \in IdArtists : \A f \in IdFields :
         (identity_cache[a] # NoRow /\ identity_cache[a][f] # NULL)
         => /\ identity_cache'[a] # NoRow
            /\ identity_cache'[a][f] # NULL
            /\ (identity_cache'[a] # identity_cache[a] /\ f \in nulled')
               => identity_cache'[a][f] = identity_cache[a][f]]_vars

C14_Witness ==
    \E a \in IdArtists :
        /\ identity_cache[a] # NoRow
        /\ nulled = {"itunes_artist_id", "mb_artist_id", "deezer_artist_id"}
        /\ identity_cache[a].itunes_artist_id = "x"
        /\ identity_cache[a].mb_artist_id = "y"
        /\ identity_cache[a].deezer_artist_id = NULL

\* C15: a fresh resolution with at least one candidate returns confidence
\* 80, 86, 92 or 100 for a winner whose track overlap is 0, 1, 2 or at
\* least 3, and 80 when there are no Last.fm titles to compare (the winner
\* then has no overlap count); a fresh resolution returns no other value.
C15_ConfidenceMapping ==
    (resolved # NoResolve /\ resolved.fresh)
    => /\ resolved.confidence \in {80, 86, 92, 100}
       /\ resolved.candidates >= 1
          => /\ idin.titles <=> resolved.overlap >= 0
             /\ resolved.overlap \in
                  {idin.cands[k].tracks : k \in 1 .. Len(idin.cands)} \cup {-1}
             /\ resolved.overlap = 0 => resolved.confidence = 80
             /\ resolved.overlap = 1 => resolved.confidence = 86
             /\ resolved.overlap = 2 => resolved.confidence = 92
             /\ resolved.overlap >= 3 => resolved.confidence = 100
             /\ ~idin.titles => resolved.confidence = 80

C15_Witness ==
    /\ resolved.fresh /\ resolved.candidates = 3
    /\ resolved.overlap = 4 /\ resolved.confidence = 100
    /\ idin.cands[1].tracks = 0

\* ---------------------------------------------------------- C16 .. C19

\* The rows stored for an artist, and those of them that hold a release.
ArtistRows(cache, a) == {x \in cache : x.artist_name = a}
ReleaseRows(cache, a) ==
    {x \in cache : x.artist_name = a /\ x.source # "sentinel"}

\* r is among the releases rs, by artist, source, title, date and kind,
\* and by album id when r carries one.
Contains(rs, r) ==
    \E x \in rs :
        /\ x.artist = r.artist /\ x.source = r.source /\ x.title = r.title
        /\ x.release_date = r.release_date /\ x.kind = r.kind
        /\ r.itunes_album_id # "" => x.itunes_album_id = r.itunes_album_id

C19_ArtistScoped ==
    [][/\ (got'.op \in {"put", "clear"} /\ got'.artist # NULL)
          => \A b \in RcArtists \ {got'.artist} :
               /\ ArtistRows(release_cache', b) = ArtistRows(release_cache, b)
               /\ \A d \in MaxAgeChoices :
                    get_cached_releases(release_cache', b, d)
                      = get_cached_releases(release_cache, b, d)
       /\ (got'.op = "clear" /\ got'.artist = NULL)
          => \A b \in RcArtists : \A d \in MaxAgeChoices :
               get_cached_releases(release_cache', b, d) = Miss
       /\ (got.op = "clear" /\ got.artist = NULL /\ got'.op = "get")
          => ~got'.hit]_vars

C19_Witness ==
    /\ got.op = "clear" /\ got.artist = "air"
    /\ ArtistRows(release_cache, "air") = {}
    /\ get_cached_releases(release_cache, "bjork", 7).hit
    /\ get_cached_releases(release_cache, "bjork", 7).releases # {}

\* ------------------------------------------------------------------ C20

\* C20: a cycle called with force_refresh clears the whole release cache
\* once, in its first step, before it has discovered anything, and no
\* other step of a cycle touches the cache; a cycle called without
\* force_refresh never clears it.
C20_ForceRefreshClearsOnce ==
    /\ [](\A t \in Threads :
            /\ (HoldsFlag(t) /\ pc[t] # "begin" /\ "s0" \notin loc[t].failed)
               => loc[t].clears = IF loc[t].force_refresh THEN 1 ELSE 0
            /\ pc[t] = "begin"
               => loc[t].clears = 0 /\ loc[t].discovered = {})
    /\ [][\A t \in Threads :
            /\ (loc[t].clears # loc'[t].clears /\ pc'[t] # "done")
               => /\ pc[t] = "begin" /\ loc[t].force_refresh
                  /\ loc[t].discovered = {} /\ loc'[t].discovered = {}
                  /\ release_cache' = {}
            /\ release_cache' # release_cache
               => \E u \in Threads :
                    pc[u] = "begin" /\ loc'[u].clears = loc[u].clears + 1]_vars

C20_Witness ==
    \E t \in Threads :
        /\ Completed(t)
        /\ loc[t].force_refresh /\ loc[t].clears = 1
        /\ loc[t].discovered # {}
        /\ release_cache = {}

\* ---------------------------------------------------------- C21 .. C22

\* C21: release discovery reads the release cache before any provider
\* request, so a call that starts on a fresh cache hit (hit-empty
\* included) makes no provider request; and a call that made provider
\* requests leaves its releases, or the sentinel when it found none, in
\* the cache.
C21_CacheBeforeProviders ==
    (disc.pc = "done" /\ ~disc.raised) =>
        /\ disc.cached.hit => disc.calls = <<>>
        /\ disc.calls # <<>> =>
             /\ ArtistRows(release_cache, DiscArtist) # {}
             /\ \A i \in DOMAIN disc.releases :
                  \E x \in ReleaseRows(release_cache, DiscArtist) :
                     /\ x.album_title = disc.releases[i].title
                     /\ x.source = disc.releases[i].source

\* C22: no release that release discovery returns, whatever provider it
\* came from, is dated after the time of the discovery.
C22_NoFutureRelease ==
    disc.pc = "done" =>
        \A i \in DOMAIN disc.releases : disc.releases[i].release_date <= Today

\* ---------------------------------------------------------- C26, C30

\* C26: a provider request that fails (timeout, non-2xx status, malformed
\* body) counts as an empty result of that provider: no exception leaves
\* release discovery, the provider whose artist search or releases request
\* failed yields nothing, and unless it is the one configured provider the
\* next provider of the chain is tried.
C26_FailureIsEmptyResult ==
    /\ ~disc.raised
    /\ \A i \in DOMAIN disc.calls :
         (disc.calls[i].outcome \in Failures
          /\ disc.calls[i].op \in {"search", "releases"}) =>
            \E j \in DOMAIN disc.tried :
               /\ disc.tried[j].provider = disc.calls[i].provider
               /\ disc.tried[j].n = 0
               /\ (disc.provider = "auto" /\ disc.pc = "done"
                   /\ disc.releases = <<>>)
                  => disc.tried[Len(disc.tried)].provider = "deezer"

\* The place of a provider in the default chain.
Priority(p) == CHOOSE i \in DOMAIN Providers : Providers[i] = p

\* C30: with MUSIC_API_PROVIDER=auto the providers are tried in the order
\* Spotify (when configured), iTunes, Deezer with none left out; a provider
\* is tried only when every provider before it yielded no release; the
\* releases returned all come from the one provider that yielded any; and
\* MusicBrainz is neither tried nor sent a request.
C30_AutoChainOrder ==
    disc.provider = "auto" =>
        LET first == IF disc.spotify_available THEN 1 ELSE 2
        IN /\ \A i \in DOMAIN disc.tried :
                /\ Priority(disc.tried[i].provider) = first + i - 1
                /\ disc.tried[i].provider # "musicbrainz"
                /\ i < Len(disc.tried) => disc.tried[i].n = 0
           /\ \A i \in DOMAIN disc.calls :
                /\ disc.calls[i].provider # "musicbrainz"
                /\ \E j \in DOMAIN disc.tried :
                      disc.tried[j].provider = disc.calls[i].provider
                /\ \A k \in DOMAIN disc.calls :
                      i < k => Priority(disc.calls[i].provider)
                                  <= Priority(disc.calls[k].provider)
           /\ \A i \in DOMAIN disc.releases :
                /\ disc.tried # <<>>
                /\ disc.releases[i].source
                      = disc.tried[Len(disc.tried)].provider
           /\ (disc.pc = "done" /\ ~disc.raised /\ disc.releases = <<>>)
                => Len(disc.tried) = 4 - first

C30_Witness ==
    /\ disc.pc = "done" /\ disc.provider = "auto" /\ disc.spotify_available
    /\ Len(disc.tried) = 3
    /\ disc.releases # <<>>
    /\ \E i \in DOMAIN disc.calls :
          disc.calls[i].provider = "spotify" /\ disc.calls[i].outcome = "ok"

\* ------------------------------------------------------------------ C23

\* The tiers in the order the claim gives them.
ClaimedOrder == << "0", "1a", "1b", "1c", "2a", "2b", "3" >>

\* The tiers whose match succeeds for the latest call, by place.
Hits == { i \in DOMAIN ClaimedOrder :
            /\ Given(TierArg(ClaimedOrder[i], own.args))
            /\ TierRows(ClaimedOrder[i], own.args, OwnLibrary) # {} }

\* The call returned a track of the first tier that matches, none if no
\* tier matches.
FirstHitReturned ==
    IF Hits = {} THEN own.result = NULL
    ELSE own.result \in TierRows(
            ClaimedOrder[CHOOSE i \in Hits : \A j \in Hits : i <= j],
            own.args, OwnLibrary)

LoopInput(t) ==
    AllReleases(InOrder(ArtistOrder, loc[t].qualified),
                [a \in DOMAIN catalog |->
                    Discovered(catalog, a, IgnoreKeywords(settings))])

NormKey(r) == << norm(r.artist), norm(r.title) >>

\* C24: the releases handed to the owned-check hold no two releases of the
\* same (normalized artist, normalized title); each of them is the first
\* release with its key, among those not ignored, in the order of
\* discovery, and every key of a release not ignored is there.
C24_UniqueByNormalizedKey ==
    \A t \in Threads :
        LET u == loc[t].unique_releases
            all == SelectSeq(LoopInput(t), LAMBDA r :
                      ~Ignored(r, IgnoreArtists(settings),
                               IgnoreKeywords(settings)))
        IN /\ \A i, j \in DOMAIN u : i # j => NormKey(u[i]) # NormKey(u[j])
           /\ u # <<>> =>
                /\ \A i \in DOMAIN u : \E k \in DOMAIN all :
                      /\ all[k] = u[i]
                      /\ \A m \in 1 .. k - 1 : NormKey(all[m]) # NormKey(u[i])
                /\ \A k \in DOMAIN all : \E i \in DOMAIN u :
                      NormKey(u[i]) = NormKey(all[k])

C24_Witness ==
    \E t \in Threads :
        /\ Completed(t)
        /\ settings.nr_ignore_artists = {} /\ settings.nr_ignore_keywords = {}
        /\ Len(catalog["air"]) >= 3
        /\ catalog["air"][1] = Rel("air", "moon", 1)
        /\ catalog["air"][2] = Rel("Air!", "moon", 1)
        /\ catalog["air"][3] = Rel("", "Moon", 1)
        /\ loc[t].unique_releases[1] = Rel("air", "moon", 1)
        /\ \A i \in DOMAIN loc[t].unique_releases :
              i > 1 => NormKey(loc[t].unique_releases[i]) # << "air", "moon" >>

\* C25: no release whose artist, lower-cased and with punctuation
\* stripped, equals an entry of the ignore list treated the same way, and
\* no release whose title contains an ignore keyword (in any case), is
\* among the releases handed to the owned-check, classified as owned or
\* unowned, or counted in releases_found.
C25_IgnoredNeverCounted ==
    \A t \in Threads :
        LET l == loc[t]
            names == { StripPunct(Lower(a)) : a \in settings.nr_ignore_artists }
            kws == { Lower(k) : k \in IF settings.nr_ignore_keywords = {}
                                      THEN CC_IGNORE_KEYWORDS
                                      ELSE settings.nr_ignore_keywords }
            clean(r) == /\ StripPunct(Lower(r.artist)) \notin names
                        /\ kws \cap KeywordsIn(Lower(r.title)) = {}
                        /\ settings.nr_ignore_keywords \cap KeywordsIn(r.title) = {}
        IN /\ \A i \in DOMAIN l.unique_releases : clean(l.unique_releases[i])
           /\ \A i \in DOMAIN l.owned_releases : clean(l.owned_releases[i])
           /\ \A i \in DOMAIN l.unowned : clean(l.unowned[i])
           /\ Completed(t) =>
                ret[t].found = Cardinality({ NormKey(r) :
                    r \in { x \in Range(LoopInput(t)) : clean(x) } })

C25_Witness ==
    \E t \in Threads :
        /\ Completed(t)
        /\ settings.nr_ignore_artists = {"Air!"}
        /\ settings.nr_ignore_keywords = {"Remix"}
        /\ \E i \in DOMAIN catalog["air"] : catalog["air"][i].artist = "air"
        /\ \E i \in DOMAIN catalog["air"] : catalog["air"][i].artist = "Air!"
        /\ \E i \in DOMAIN catalog["air"] :
              catalog["air"][i].title = "Sun Remix"
        /\ loc[t].qualified = {"air", "bjork"}
        /\ loc[t].unique_releases = << Rel("bjork", "sun", 1) >>
        /\ ret[t].found = 1

\* ------------------------------------------------------------------ C29

\* C29: the owned-check puts every unique release of a cycle in exactly
\* one of the two classes owned and unowned; the result of every cycle that
\* ran through has releases_owned + releases_unowned = releases_found and
\* queued <= releases_unowned, and the result of a cycle without a
\* qualified artist has releases_found = 0 and queued = 0.
C29_OwnedUnownedPartition ==
    \A t \in Threads :
        LET l == loc[t] IN
        /\ (pc[t] \in {"s5", "s6", "s7", "return"} \/ Completed(t)) =>
              /\ Range(l.owned_releases) \cap Range(l.unowned) = {}
              /\ Range(l.owned_releases) \cup Range(l.unowned)
                    = Range(l.unique_releases)
              /\ Len(l.owned_releases) + Len(l.unowned)
                    = Len(l.unique_releases)
        /\ Completed(t) =>
              /\ ret[t].found = Len(l.unique_releases)
              /\ ret[t].owned + ret[t].unowned = ret[t].found
              /\ ret[t].queued <= ret[t].unowned
        /\ (pc[t] = "finally" /\ ret[t].status = "ok" /\ ~Completed(t)) =>
              ret[t].found = 0 /\ ret[t].queued = 0

C29_Witness ==
    \E t \in Threads :
        /\ Completed(t)
        /\ ret[t].owned = 1 /\ ret[t].unowned >= 2 /\ ret[t].queued >= 1
        /\ ret[t].queued < ret[t].unowned

\* ------------------------------------------------------------------ C28

\* scheduler.py:33-40  get_status: the three module globals as they are.
get_status ==
    [is_running |-> is_running, last_run |-> last_run,
     last_result |-> last_result]

\* routes/new_music.py:14-22  the state the status route derives from it.
cc_status ==
    LET raw == get_status IN
    IF raw.is_running THEN "running"
    ELSE IF raw.last_result # NoResult
         THEN IF raw.last_result.status = "error" THEN "error"
              ELSE "completed"
         ELSE "idle"

\* C28: whenever a thread is executing a cycle get_status reports
\* is_running (and the route reports "running"); before any cycle has
\* finished last_result is empty; and last_result changes only when a
\* cycle finishes, to that cycle's result, which carries the error message
\* when the cycle failed.
C28_StatusReflectsCycle ==
    /\ [](\A t \in Threads :
            InCycle(t) => get_status.is_running /\ cc_status = "running")
    /\ []((\A t \in Threads : ret[t] \in {NoResult, Skipped})
            => get_status.last_result = NoResult)
    /\ [][last_result' # last_result =>
            \E t \in Threads :
                /\ pc[t] \in {"return", "except"} /\ pc'[t] = "finally"
                /\ last_result' = ret'[t]
                /\ pc[t] = "except" =>
                      ret'[t].status = "error" /\ ret'[t].message # ""]_vars

\* ------------------------------------------------------------------ C27

\* C27: under every interleaving of the calling threads, any two requests
\* sent to iTunes are at least 3.1 s apart and any two sent to MusicBrainz
\* at least 1.1 s apart.
C27_RequestsSpaced ==
    \A p \in Limited :
        \A i \in DOMAIN limiter.sent[p], j \in DOMAIN limiter.sent[p] :
            i < j => limiter.sent[p][j] - limiter.sent[p][i] >= RateInterval(p)

\* ------------------------------------------------------------------ C31

\* The case the cache check is claimed to serve from the cache.
FreshAndConfident(c, force) ==
    /\ ~force /\ c # NoRow
    /\ c.confidence >= 85
    /\ Today - c.last_resolved_ts < 30

\* C31: a resolve_artist call that is not forced and finds a row with
\* confidence at least 85 that is less than 30 days old returns the row's
\* iTunes id and confidence with method cache_hit, runs no search and
\* writes nothing to the cache; every other call (forced, confidence below
\* 85, 30 days old or older, or no row) performs a fresh resolution.
C31_CacheHitExactly ==
    [][\A name \in IdArtists :
         (resolved = NoResolve /\ resolved' # NoResolve) =>
            LET c == identity_cache[name] IN
            IF FreshAndConfident(c, idin.force)
            THEN /\ resolved'.method = "cache_hit" /\ ~resolved'.fresh
                 /\ resolved'.itunes_artist_id = c.itunes_artist_id
                 /\ resolved'.itunes_artist_id # NULL
                 /\ resolved'.confidence = c.confidence
                 /\ resolved'.candidates = 0
                 /\ identity_cache' = identity_cache
            ELSE /\ resolved'.fresh /\ resolved'.method # "cache_hit"
                 /\ resolved'.candidates = Len(idin.cands)]_vars

C31_Witness ==
    /\ resolved.method = "cache_hit"
    /\ identity_cache["air"].last_resolved_ts = Today - 29
    /\ identity_cache["air"].confidence = 86
    /\ idin.cands # <<>>

\* ------------------------------------------------------------------ C34

\* The number of candidates that come before candidate k when the search
\* answer is ordered by name score, equal scores in the answer's order.
NameRank(k) ==
    Cardinality({j \in DOMAIN idin.cands :
        \/ NameScore(idin.cands[j].match) > NameScore(idin.cands[k].match)
        \/ /\ NameScore(idin.cands[j].match) = NameScore(idin.cands[k].match)
           /\ j < k})

\* Candidate k's overlap was computed: there are Last.fm titles and k is
\* one of the three best by name.
OverlapComputed(k) == idin.titles /\ NameRank(k) < 3

\* Name score plus 200 per overlapping title where the overlap was computed.
FinalScore(k) ==
    NameScore(idin.cands[k].match)
      + (IF OverlapComputed(k) THEN 200 * idin.cands[k].tracks ELSE 0)

\* C34: the winner of a fresh resolution with candidates is a candidate
\* whose final score is the largest of all candidates; when Last.fm titles
\* are available it is one of the three candidates whose overlap was
\* computed, the returned overlap is its own, and the confidence is the one
\* of that overlap.
C34_WinnerHasMaxScore ==
    (resolved # NoResolve /\ resolved.fresh /\ resolved.candidates >= 1) =>
       \E k \in DOMAIN idin.cands :
          /\ resolved.itunes_artist_id = idin.cands[k].id
          /\ \A j \in DOMAIN idin.cands : FinalScore(k) >= FinalScore(j)
          /\ idin.titles =>
                /\ OverlapComputed(k)
                /\ resolved.overlap = idin.cands[k].tracks
                /\ resolved.confidence =
                      (CASE idin.cands[k].tracks >= 3 -> 100
                         [] idin.cands[k].tracks = 2 -> 92
                         [] idin.cands[k].tracks = 1 -> 86
                         [] OTHER -> 80)
          /\ ~idin.titles => resolved.overlap = -1 /\ resolved.confidence = 80

\* The winner is not the best by name: its overlap lifted it over the
\* first candidate, with a fourth candidate left without an overlap count.
C34_Witness ==
    /\ resolved.fresh /\ resolved.candidates = 4 /\ idin.titles
    /\ resolved.itunes_artist_id = "c3"
    /\ idin.cands[1].match = "equal" /\ idin.cands[3].match = "contains"
    /\ idin.cands[4].tracks = 3 /\ NameRank(4) = 3

\* ------------------------------------------------------------ C36, C39

\* C36: once an identifier field of an artist's row holds a value, no
\* later write to the identity cache changes that field, whether the write
\* passes NULL or another identifier.
C36_OnlyFillsMissing ==
    [][\A a \in IdArtists, f \in IdFields :
         (identity_cache[a] # NoRow /\ identity_cache[a][f] # NULL)
         => identity_cache'[a][f] = identity_cache[a][f]]_vars

\* C39: a write to the identity cache that is not the write of a
\* resolution (the image service's write of one identifier, the cycle's
\* write-back) leaves the row's confidence and last-resolved time as they
\* were, so a row with confidence at least 85 and younger than 30 days is
\* still one after the write.
C39_IdWriteKeepsConfidence ==
    [][\A a \in IdArtists :
         (/\ identity_cache[a] # NoRow
          /\ identity_cache'[a] # identity_cache[a]
          /\ ~(resolved = NoResolve /\ resolved' # NoResolve))
         => /\ identity_cache'[a].confidence = identity_cache[a].confidence
            /\ identity_cache'[a].last_resolved_ts
                  = identity_cache[a].last_resolved_ts
            /\ FreshAndConfident(identity_cache[a], FALSE)
                  => FreshAndConfident(identity_cache'[a], FALSE)]_vars

\* ------------------------------------------------------------------ C38

\* C38: in every state in which some thread is inside the stage sequence
\* get_status reports is_running true, and the step that clears the flag
\* leaves no thread inside the stage sequence.
C38_FlagAccurate ==
    /\ [](\A t \in Threads : InCycle(t) => get_status.is_running)
    /\ [][(is_running /\ ~is_running')
             => \A u \in Threads : ~InCycle(u)]_vars

\* ------------------------------------------------------------------ C35

\* C35: no step of a check_queue pass changes a pending row (it keeps its
\* place, id and status), and no step gives a row the status submitted.
C35_PendingUntouched ==
    [][/\ \A k \in 1 .. Len(queue) :
             queue[k].status = "pending"
             => k <= Len(queue') /\ queue'[k] = queue[k]
       /\ \A k \in 1 .. Len(queue') :
             queue'[k].status = "submitted"
             => k <= Len(queue) /\ queue[k].status = "submitted"]_vars

\* Both passes are over: the stale submitted row was timed out, the pending
\* row is as it was.
C35_Witness ==
    /\ passes = 0
    /\ \E w \in Workers : acq[w].pc = "done" /\ 2 \in acq[w].timed_out
    /\ queue[1].status = "pending" /\ queue[1].created_at = Today - 31
    /\ queue[2].status = "failed"

\* ------------------------------------------------------- C32, C33, C37

\* C32: an iteration of the loop that is over (the thread waits for the
\* next one, or has ended inside it) has run the worker exactly once, and
\* the worker has not run while the iteration still tests the schedule or
\* runs its cycle.
C32_WorkerOncePerIteration ==
    /\ lp.pc \in {"wait", "crashed"} => lp.worked = 1
    /\ lp.pc \in {"sched", "cycle", "worker"} => lp.worked = 0

C37_NoMoreOftenThanConfigured ==
    /\ \A k \in DOMAIN lp.started :
          (lp.cfg.weekday >= 0 /\ lp.cfg.hour >= 0)
          => /\ lp.started[k] % 24 = lp.cfg.hour
             /\ (lp.started[k] \div 24) % 7 = lp.cfg.weekday
    /\ Len(lp.started) = 2 =>
          IF lp.cfg.weekday >= 0 /\ lp.cfg.hour >= 0
          THEN lp.started[1] # lp.started[2]
          ELSE lp.started[2] - lp.started[1] >= lp.cfg.cycle_hours
    /\ Len(lp.forced) = 2 => lp.forced[1] # lp.forced[2]

\* Day/time mode: a cycle ran in the scheduled hour, the loop was stopped
\* and started again in that hour, and the new thread ran no second cycle.
C37_Witness ==
    /\ lp.cfg.weekday = 0 /\ lp.threads = 2 /\ lp.pc = "wait"
    /\ lp.now = 1 /\ lp.started = <<1>> /\ lp.forced = <<0>>
    /\ ~lp.ran /\ lp.cc_last_run = 1

====
